---------------------------- MODULE Spec2Model ----------------------------
(***************************************************************************)
(* Model of the two report scripts of jetaasc-events:                      *)
(*   scripts/generate_jet_placement_heatmap.py  (JET prefecture pipeline)  *)
(*   scripts/generate_residence_heatmap.py      (US address pipeline)      *)
(*                                                                         *)
(* Representation.  A Python str is a sequence of one-character strings    *)
(* ("T","o",...); a character outside ASCII is written "U+XXXX".  Python's *)
(* None is the value None below.  A dict (dicts keep insertion order) is a *)
(* sequence of <<key, value>> pairs with pairwise distinct keys.           *)
(* A coordinate is the decimal literal of the source times 10000.          *)
(***************************************************************************)
EXTENDS Integers, Sequences, FiniteSets, TLC

VARIABLES
  prog,         \* which script runs: "jet", "residence" ("none": a function is applied on its own)
  rows,         \* the rows csv.DictReader yields: the raw text of the location field of each
  pc,           \* position in main(): "loop", "html", "done", "error"
  total,        \* main: total
  mapped,       \* jet main: mapped
  parsed,       \* residence main: parsed
  geocoded,     \* residence main: geocoded
  prefectures,  \* jet main: prefectures (Counter)
  states,       \* residence main: states (Counter)
  locations,    \* main: locations (dict keyed by (lat, lng))
  out,          \* what generate_html hands to the page, None before
  err,          \* the exception that ended the run, "none" when there is none
  op,           \* the function applied on its own: "call" before, its name after
  arg,          \* its argument
  ret           \* its result

vars == <<prog, rows, pc, total, mapped, parsed, geocoded, prefectures,
          states, locations, out, err, op, arg, ret>>

mainVars == <<prog, rows, pc, total, mapped, parsed, geocoded, prefectures,
              states, locations, out, err>>

(***************************************************************************)
(* Python values and str / dict operations                                 *)
(***************************************************************************)
None == <<"None">>

Min(S) == CHOOSE x \in S : \A y \in S : x <= y

Max(S) == CHOOSE x \in S : \A y \in S : x >= y

\* the sequences over the set of characters C of length at most n
Text(C, n) == UNION {[1..k -> C] : k \in 0..n}

UpperLetters == <<"A","B","C","D","E","F","G","H","I","J","K","L","M",
                  "N","O","P","Q","R","S","T","U","V","W","X","Y","Z">>

LowerLetters == <<"a","b","c","d","e","f","g","h","i","j","k","l","m",
                  "n","o","p","q","r","s","t","u","v","w","x","y","z">>

Digits == {"0","1","2","3","4","5","6","7","8","9"}

\* str.isspace of one character (the ASCII part of it)
Whitespace == {" ", "\t", "\n", "\r", "\f"}

\* str.lower() / str.upper() as maps of the ASCII letters
ToLower == [c \in {UpperLetters[k] : k \in 1..26} |->
             LowerLetters[CHOOSE k \in 1..26 : UpperLetters[k] = c]]

ToUpper == [c \in {LowerLetters[k] : k \in 1..26} |->
             UpperLetters[CHOOSE k \in 1..26 : LowerLetters[k] = c]]

IsUpper(c) == c \in DOMAIN ToLower

IsLower(c) == c \in DOMAIN ToUpper

LowerChar(c) == IF IsUpper(c) THEN ToLower[c] ELSE c

UpperChar(c) == IF IsLower(c) THEN ToUpper[c] ELSE c

lower(s) == [k \in 1..Len(s) |-> LowerChar(s[k])]

upper(s) == [k \in 1..Len(s) |-> UpperChar(s[k])]

\* s.strip(chars): drop the leading and the trailing characters that are in chars
strip(s, chars) ==
  LET keep == {k \in 1..Len(s) : s[k] \notin chars}
  IN  IF keep = {} THEN <<>> ELSE SubSeq(s, Min(keep), Max(keep))

\* Python's `a in b` for two str
Contains(a, b) == \E k \in 0..(Len(b) - Len(a)) : \A j \in 1..Len(a) : b[k + j] = a[j]

\* Python's `k in d`, `d[k]` and `d[k] = v` for a dict
DictHas(d, k) == \E n \in 1..Len(d) : d[n][1] = k

DictGet(d, k) == d[CHOOSE n \in 1..Len(d) : d[n][1] = k][2]

DictSet(d, k, v) ==
  IF DictHas(d, k) THEN [n \in 1..Len(d) |-> IF d[n][1] = k THEN <<k, v>> ELSE d[n]]
  ELSE Append(d, <<k, v>>)

(***************************************************************************)
(* scripts/generate_jet_placement_heatmap.py                               *)
(***************************************************************************)
PREFECTURE_COORDS ==
  <<
    <<<<"H","o","k","k","a","i","d","o">>, <<430642, 1413469, "Hokkaido">>>>,
    <<<<"A","o","m","o","r","i">>, <<408244, 1407400, "Aomori">>>>,
    <<<<"I","w","a","t","e">>, <<397036, 1411527, "Iwate">>>>,
    <<<<"M","i","y","a","g","i">>, <<382688, 1408721, "Miyagi">>>>,
    <<<<"A","k","i","t","a">>, <<397186, 1401024, "Akita">>>>,
    <<<<"Y","a","m","a","g","a","t","a">>, <<382404, 1403633, "Yamagata">>>>,
    <<<<"F","u","k","u","s","h","i","m","a">>, <<377500, 1404678, "Fukushima">>>>,
    <<<<"I","b","a","r","a","k","i">>, <<363418, 1404468, "Ibaraki">>>>,
    <<<<"T","o","c","h","i","g","i">>, <<365658, 1398836, "Tochigi">>>>,
    <<<<"G","u","n","m","a">>, <<363912, 1390608, "Gunma">>>>,
    <<<<"S","a","i","t","a","m","a">>, <<358617, 1396455, "Saitama">>>>,
    <<<<"C","h","i","b","a">>, <<356050, 1401233, "Chiba">>>>,
    <<<<"T","o","k","y","o">>, <<356762, 1396503, "Tokyo">>>>,
    <<<<"K","a","n","a","g","a","w","a">>, <<354478, 1396425, "Kanagawa">>>>,
    <<<<"N","i","i","g","a","t","a">>, <<379026, 1390236, "Niigata">>>>,
    <<<<"T","o","y","a","m","a">>, <<366953, 1372113, "Toyama">>>>,
    <<<<"I","s","h","i","k","a","w","a">>, <<365947, 1366256, "Ishikawa">>>>,
    <<<<"F","u","k","u","i">>, <<360652, 1362216, "Fukui">>>>,
    <<<<"Y","a","m","a","n","a","s","h","i">>, <<356642, 1385684, "Yamanashi">>>>,
    <<<<"N","a","g","a","n","o">>, <<366513, 1381810, "Nagano">>>>,
    <<<<"G","i","f","u">>, <<353912, 1367223, "Gifu">>>>,
    <<<<"S","h","i","z","u","o","k","a">>, <<349769, 1383831, "Shizuoka">>>>,
    <<<<"A","i","c","h","i">>, <<351802, 1369066, "Aichi">>>>,
    <<<<"M","i","e">>, <<347303, 1365086, "Mie">>>>,
    <<<<"S","h","i","g","a">>, <<350045, 1358686, "Shiga">>>>,
    <<<<"K","y","o","t","o">>, <<350116, 1357681, "Kyoto">>>>,
    <<<<"O","s","a","k","a">>, <<346937, 1355023, "Osaka">>>>,
    <<<<"H","y","o","g","o">>, <<346913, 1351830, "Hyogo">>>>,
    <<<<"N","a","r","a">>, <<346851, 1358329, "Nara">>>>,
    <<<<"W","a","k","a","y","a","m","a">>, <<342260, 1351675, "Wakayama">>>>,
    <<<<"T","o","t","t","o","r","i">>, <<355039, 1342381, "Tottori">>>>,
    <<<<"S","h","i","m","a","n","e">>, <<354723, 1330505, "Shimane">>>>,
    <<<<"O","k","a","y","a","m","a">>, <<346618, 1339344, "Okayama">>>>,
    <<<<"H","i","r","o","s","h","i","m","a">>, <<343853, 1324553, "Hiroshima">>>>,
    <<<<"Y","a","m","a","g","u","c","h","i">>, <<341859, 1314714, "Yamaguchi">>>>,
    <<<<"T","o","k","u","s","h","i","m","a">>, <<340658, 1345593, "Tokushima">>>>,
    <<<<"K","a","g","a","w","a">>, <<343401, 1340434, "Kagawa">>>>,
    <<<<"E","h","i","m","e">>, <<338416, 1327657, "Ehime">>>>,
    <<<<"K","o","c","h","i">>, <<335597, 1335311, "Kochi">>>>,
    <<<<"F","u","k","u","o","k","a">>, <<335904, 1304017, "Fukuoka">>>>,
    <<<<"S","a","g","a">>, <<332494, 1302988, "Saga">>>>,
    <<<<"N","a","g","a","s","a","k","i">>, <<327448, 1298737, "Nagasaki">>>>,
    <<<<"K","u","m","a","m","o","t","o">>, <<327898, 1307417, "Kumamoto">>>>,
    <<<<"O","i","t","a">>, <<332382, 1316126, "Oita">>>>,
    <<<<"M","i","y","a","z","a","k","i">>, <<319077, 1314202, "Miyazaki">>>>,
    <<<<"K","a","g","o","s","h","i","m","a">>, <<315602, 1305581, "Kagoshima">>>>,
    <<<<"O","k","i","n","a","w","a">>, <<262124, 1276809, "Okinawa">>>>
  >>

PREFECTURE_ALIASES ==
  <<
    <<<<"T","o","k","y","o"," ","M","e","t","r","o","p","o","l","i","t","a","n"," ","G","o","v","e","r","n","m","e","n","t","U+6771","U+4EAC","U+90FD">>,
      <<"T","o","k","y","o">>>>,
    <<<<"H","y","o","g","o"," ","P","r","e","f",".","U+5175","U+5EAB","U+770C">>,
      <<"H","y","o","g","o">>>>,
    <<<<"O","i","t","a"," ","P","r","e","f",".","U+5927","U+5206","U+770C">>,
      <<"O","i","t","a">>>>,
    <<<<"Y","a","m","a","n","a","s","h","i"," ","P","r","e","f",".","U+5C71","U+68A8","U+770C">>,
      <<"Y","a","m","a","n","a","s","h","i">>>>,
    <<<<"O","s","a","k","a"," ","P","r","e","f",".","U+5927","U+962A","U+5E9C">>,
      <<"O","s","a","k","a">>>>,
    <<<<"F","u","k","u","o","k","a"," ","P","r","e","f",".","U+798F","U+5CA1","U+770C">>,
      <<"F","u","k","u","o","k","a">>>>,
    <<<<"N","a","g","a","n","o"," ","P","r","e","f",".","U+9577","U+91CE","U+770C">>,
      <<"N","a","g","a","n","o">>>>,
    <<<<"A","i","c","h","i"," ","P","r","e","f",".","U+611B","U+77E5","U+770C">>,
      <<"A","i","c","h","i">>>>,
    <<<<"K","y","o","t","o"," ","P","r","e","f",".","U+4EAC","U+90FD","U+5E9C">>,
      <<"K","y","o","t","o">>>>,
    <<<<"S","a","i","t","a","m","a"," ","P","r","e","f",".","U+57FC","U+7389","U+770C">>,
      <<"S","a","i","t","a","m","a">>>>,
    <<<<"C","h","i","b","a"," ","P","r","e","f",".","U+5343","U+8449","U+770C">>,
      <<"C","h","i","b","a">>>>,
    <<<<"K","a","n","a","g","a","w","a"," ","P","r","e","f",".","U+795E","U+5948","U+5DDD","U+770C">>,
      <<"K","a","n","a","g","a","w","a">>>>
  >>

RECURSIVE KnownLoop_head(_, _)
\* KnownLoop matching on the first four characters of the text only
KnownLoop_head(pref, n) ==
  IF n > Len(PREFECTURE_COORDS) THEN None
  ELSE LET known == PREFECTURE_COORDS[n][1]
           head == SubSeq(pref, 1, IF Len(pref) < 4 THEN Len(pref) ELSE 4)
       IN  IF Contains(lower(known), lower(head)) \/ Contains(lower(head), lower(known))
           THEN known
           ELSE KnownLoop_head(pref, n + 1)

RECURSIVE KnownLoop_oneway(_, _)
\* KnownLoop with the test `pref.lower() in known.lower()` left out
KnownLoop_oneway(pref, n) ==
  IF n > Len(PREFECTURE_COORDS) THEN None
  ELSE LET known == PREFECTURE_COORDS[n][1]
       IN  IF Contains(lower(known), lower(pref)) THEN known
           ELSE KnownLoop_oneway(pref, n + 1)

RECURSIVE KnownLoop(_, _)
\* the loop `for known in PREFECTURE_COORDS.keys()` from the n-th key on
KnownLoop(pref, n) ==
  IF n > Len(PREFECTURE_COORDS) THEN None
  ELSE LET known == PREFECTURE_COORDS[n][1]
       IN  IF Contains(lower(known), lower(pref)) \/ Contains(lower(pref), lower(known))
           THEN known
           ELSE KnownLoop(pref, n + 1)

\* normalize_prefecture without the test `pref.strip() == ''`
normalize_prefecture_noblank(pref) ==
  IF pref = None \/ pref = <<>> \/ pref = <<"N","/","A">>
  THEN None
  ELSE LET p == strip(strip(pref, Whitespace), {"\""})
       IN  IF DictHas(PREFECTURE_ALIASES, p) THEN DictGet(PREFECTURE_ALIASES, p)
           ELSE KnownLoop(p, 1)

\* normalize_prefecture returning the alias itself instead of PREFECTURE_ALIASES[pref]
normalize_prefecture_aliaskey(pref) ==
  IF pref = None \/ pref = <<>> \/ strip(pref, Whitespace) = <<>> \/ pref = <<"N","/","A">>
  THEN None
  ELSE LET p == strip(strip(pref, Whitespace), {"\""})
       IN  IF DictHas(PREFECTURE_ALIASES, p) THEN p
           ELSE KnownLoop(p, 1)

normalize_prefecture(pref) ==
  IF pref = None \/ pref = <<>> \/ strip(pref, Whitespace) = <<>> \/ pref = <<"N","/","A">>
  THEN None
  ELSE LET p == strip(strip(pref, Whitespace), {"\""})
       IN  IF DictHas(PREFECTURE_ALIASES, p) THEN DictGet(PREFECTURE_ALIASES, p)
           ELSE KnownLoop(p, 1)

(***************************************************************************)
(* scripts/generate_residence_heatmap.py                                   *)
(***************************************************************************)
STATE_ABBREV ==
  <<
    <<<<"A","L">>, "Alabama">>, <<<<"A","K">>, "Alaska">>, <<<<"A","Z">>, "Arizona">>, <<<<"A","R">>, "Arkansas">>,
    <<<<"C","A">>, "California">>, <<<<"C","O">>, "Colorado">>, <<<<"C","T">>, "Connecticut">>, <<<<"D","E">>, "Delaware">>,
    <<<<"F","L">>, "Florida">>, <<<<"G","A">>, "Georgia">>, <<<<"H","I">>, "Hawaii">>, <<<<"I","D">>, "Idaho">>,
    <<<<"I","L">>, "Illinois">>, <<<<"I","N">>, "Indiana">>, <<<<"I","A">>, "Iowa">>, <<<<"K","S">>, "Kansas">>,
    <<<<"K","Y">>, "Kentucky">>, <<<<"L","A">>, "Louisiana">>, <<<<"M","E">>, "Maine">>, <<<<"M","D">>, "Maryland">>,
    <<<<"M","A">>, "Massachusetts">>, <<<<"M","I">>, "Michigan">>, <<<<"M","N">>, "Minnesota">>, <<<<"M","S">>, "Mississippi">>,
    <<<<"M","O">>, "Missouri">>, <<<<"M","T">>, "Montana">>, <<<<"N","E">>, "Nebraska">>, <<<<"N","V">>, "Nevada">>,
    <<<<"N","H">>, "New Hampshire">>, <<<<"N","J">>, "New Jersey">>, <<<<"N","M">>, "New Mexico">>, <<<<"N","Y">>, "New York">>,
    <<<<"N","C">>, "North Carolina">>, <<<<"N","D">>, "North Dakota">>, <<<<"O","H">>, "Ohio">>, <<<<"O","K">>, "Oklahoma">>,
    <<<<"O","R">>, "Oregon">>, <<<<"P","A">>, "Pennsylvania">>, <<<<"R","I">>, "Rhode Island">>, <<<<"S","C">>, "South Carolina">>,
    <<<<"S","D">>, "South Dakota">>, <<<<"T","N">>, "Tennessee">>, <<<<"T","X">>, "Texas">>, <<<<"U","T">>, "Utah">>,
    <<<<"V","T">>, "Vermont">>, <<<<"V","A">>, "Virginia">>, <<<<"W","A">>, "Washington">>, <<<<"W","V">>, "West Virginia">>,
    <<<<"W","I">>, "Wisconsin">>, <<<<"W","Y">>, "Wyoming">>, <<<<"D","C">>, "District of Columbia">>
  >>

ZIP_COORDS ==
  <<
    <<<<"9","0","0">>, <<340522, -1182437, "Downtown LA">>>>,
    <<<<"9","0","1">>, <<339425, -1182551, "Inglewood/South LA">>>>,
    <<<<"9","0","2">>, <<338153, -1183518, "Torrance/South Bay">>>>,
    <<<<"9","0","3">>, <<338958, -1182201, "Compton/Lynwood">>>>,
    <<<<"9","0","4">>, <<339017, -1180818, "Cerritos/Norwalk">>>>,
    <<<<"9","0","5">>, <<337701, -1181937, "Long Beach">>>>,
    <<<<"9","0","6">>, <<337879, -1181489, "Long Beach East">>>>,
    <<<<"9","0","7">>, <<337975, -1183223, "San Pedro/Harbor">>>>,
    <<<<"9","0","8">>, <<337959, -1181052, "Lakewood/Hawaiian Gardens">>>>,
    <<<<"9","1","0">>, <<341808, -1183090, "Glendale/Burbank">>>>,
    <<<<"9","1","1">>, <<341425, -1182551, "Glendale/Eagle Rock">>>>,
    <<<<"9","1","2">>, <<341478, -1181445, "Pasadena">>>>,
    <<<<"9","1","3">>, <<341064, -1180415, "Arcadia/Monrovia">>>>,
    <<<<"9","1","4">>, <<340689, -1179391, "San Dimas/La Verne">>>>,
    <<<<"9","1","5">>, <<340966, -1177198, "Pomona/Claremont">>>>,
    <<<<"9","1","6">>, <<340195, -1181517, "Alhambra/Monterey Park">>>>,
    <<<<"9","1","7">>, <<340633, -1182275, "East LA/City Terrace">>>>,
    <<<<"9","1","8">>, <<340901, -1178903, "West Covina/Covina">>>>,
    <<<<"9","1","9">>, <<341478, -1178648, "Azusa/Glendora">>>>,
    <<<<"9","2","0">>, <<327157, -1171611, "San Diego Central">>>>,
    <<<<"9","2","1">>, <<328328, -1171713, "San Diego North">>>>,
    <<<<"9","2","2">>, <<331959, -1173795, "Oceanside/Carlsbad">>>>,
    <<<<"9","2","3">>, <<330114, -1170917, "Escondido/San Marcos">>>>,
    <<<<"9","2","4">>, <<326401, -1170842, "Chula Vista/National City">>>>,
    <<<<"9","2","5">>, <<327940, -1169625, "El Cajon/La Mesa">>>>,
    <<<<"9","2","6">>, <<336846, -1178265, "Irvine/Lake Forest">>>>,
    <<<<"9","2","7">>, <<337175, -1178311, "Santa Ana/Orange">>>>,
    <<<<"9","2","8">>, <<338366, -1179143, "Anaheim/Fullerton">>>>,
    <<<<"9","3","0">>, <<349530, -1204357, "Santa Maria">>>>,
    <<<<"9","3","1">>, <<344208, -1196982, "Santa Barbara">>>>,
    <<<<"9","3","2">>, <<353733, -1190187, "Bakersfield">>>>,
    <<<<"9","3","3">>, <<353733, -1190187, "Bakersfield">>>>,
    <<<<"9","3","4">>, <<367378, -1197871, "Fresno">>>>,
    <<<<"9","3","5">>, <<367378, -1197871, "Fresno">>>>,
    <<<<"9","3","6">>, <<367378, -1197871, "Fresno">>>>,
    <<<<"9","3","7">>, <<366002, -1218947, "Monterey/Salinas">>>>,
    <<<<"9","3","9">>, <<373382, -1218863, "San Jose">>>>,
    <<<<"9","4","0">>, <<377749, -1224194, "San Francisco">>>>,
    <<<<"9","4","1">>, <<377749, -1224194, "San Francisco">>>>,
    <<<<"9","4","2">>, <<378044, -1222712, "Oakland">>>>,
    <<<<"9","4","3">>, <<375485, -1220590, "Fremont/Hayward">>>>,
    <<<<"9","4","4">>, <<378716, -1222727, "Berkeley">>>>,
    <<<<"9","4","5">>, <<378044, -1222712, "Oakland">>>>,
    <<<<"9","4","6">>, <<379577, -1223470, "Richmond/El Cerrito">>>>,
    <<<<"9","4","7">>, <<379577, -1223470, "Contra Costa">>>>,
    <<<<"9","4","8">>, <<379577, -1223470, "Contra Costa">>>>,
    <<<<"9","4","9">>, <<379735, -1225311, "Marin County">>>>,
    <<<<"9","5","0">>, <<373382, -1218863, "San Jose">>>>,
    <<<<"9","5","1">>, <<339533, -1173962, "Riverside">>>>,
    <<<<"9","5","2">>, <<339533, -1173962, "Riverside">>>>,
    <<<<"9","5","3">>, <<340922, -1174350, "San Bernardino">>>>,
    <<<<"9","5","4">>, <<345362, -1172928, "Victorville/High Desert">>>>,
    <<<<"9","5","5">>, <<405865, -1223917, "Redding">>>>,
    <<<<"9","5","6">>, <<385816, -1214944, "Sacramento">>>>,
    <<<<"9","5","7">>, <<385816, -1214944, "Sacramento">>>>,
    <<<<"9","5","8">>, <<385816, -1214944, "Sacramento">>>>,
    <<<<"9","5","9">>, <<385816, -1214944, "Sacramento">>>>,
    <<<<"9","6","0">>, <<408021, -1241637, "Eureka">>>>,
    <<<<"9","0","0","0","4">>, <<340764, -1183090, "Los Feliz">>>>,
    <<<<"9","0","0","0","5">>, <<340594, -1183011, "Koreatown">>>>,
    <<<<"9","0","0","0","6">>, <<340478, -1182946, "Pico-Union">>>>,
    <<<<"9","0","0","0","7">>, <<340259, -1182838, "USC/South LA">>>>,
    <<<<"9","0","0","0","8">>, <<340106, -1183401, "Baldwin Hills">>>>,
    <<<<"9","0","0","1","0">>, <<340620, -1183152, "Mid-Wilshire">>>>,
    <<<<"9","0","0","1","2">>, <<340622, -1182406, "Chinatown/Civic Center">>>>,
    <<<<"9","0","0","1","3">>, <<340407, -1182468, "Downtown LA">>>>,
    <<<<"9","0","0","1","4">>, <<340407, -1182533, "Fashion District">>>>,
    <<<<"9","0","0","1","5">>, <<340370, -1182654, "South Park">>>>,
    <<<<"9","0","0","1","6">>, <<340281, -1183520, "West Adams">>>>,
    <<<<"9","0","0","1","7">>, <<340522, -1182602, "Downtown West">>>>,
    <<<<"9","0","0","1","8">>, <<340281, -1183178, "Jefferson Park">>>>,
    <<<<"9","0","0","1","9">>, <<340478, -1183401, "Mid-City">>>>,
    <<<<"9","0","0","2","0">>, <<340667, -1183090, "Koreatown North">>>>,
    <<<<"9","0","0","2","4">>, <<340633, -1184298, "Westwood">>>>,
    <<<<"9","0","0","2","5">>, <<340411, -1184476, "West LA">>>>,
    <<<<"9","0","0","2","6">>, <<340781, -1182606, "Echo Park">>>>,
    <<<<"9","0","0","2","7">>, <<341017, -1182937, "Los Feliz/Griffith">>>>,
    <<<<"9","0","0","2","8">>, <<341017, -1183287, "Hollywood">>>>,
    <<<<"9","0","0","2","9">>, <<340900, -1182937, "Thai Town">>>>,
    <<<<"9","0","0","3","1">>, <<340781, -1182106, "Lincoln Heights">>>>,
    <<<<"9","0","0","3","2">>, <<340781, -1181756, "El Sereno">>>>,
    <<<<"9","0","0","3","3">>, <<340481, -1182106, "Boyle Heights">>>>,
    <<<<"9","0","0","3","4">>, <<340281, -1183970, "Palms/Cheviot Hills">>>>,
    <<<<"9","0","0","3","5">>, <<340533, -1183720, "Miracle Mile">>>>,
    <<<<"9","0","0","3","6">>, <<340700, -1183520, "Park La Brea">>>>,
    <<<<"9","0","0","3","8">>, <<340900, -1183287, "Hollywood">>>>,
    <<<<"9","0","0","3","9">>, <<341117, -1182606, "Silver Lake">>>>,
    <<<<"9","0","0","4","1">>, <<341367, -1182106, "Eagle Rock">>>>,
    <<<<"9","0","0","4","2">>, <<341117, -1181906, "Highland Park">>>>,
    <<<<"9","0","0","4","3">>, <<339906, -1183401, "View Park">>>>,
    <<<<"9","0","0","4","4">>, <<339531, -1182901, "Athens">>>>,
    <<<<"9","0","0","4","5">>, <<339581, -1183970, "Westchester">>>>,
    <<<<"9","0","0","4","6">>, <<341117, -1183670, "West Hollywood">>>>,
    <<<<"9","0","0","4","7">>, <<339531, -1183178, "South LA">>>>,
    <<<<"9","0","0","4","8">>, <<340750, -1183720, "Beverly Grove">>>>,
    <<<<"9","0","0","4","9">>, <<340781, -1184726, "Brentwood">>>>,
    <<<<"9","0","0","5","6">>, <<339906, -1183720, "Ladera Heights">>>>,
    <<<<"9","0","0","5","7">>, <<340594, -1182751, "Westlake">>>>,
    <<<<"9","0","0","5","8">>, <<339906, -1182106, "Vernon">>>>,
    <<<<"9","0","0","5","9">>, <<339281, -1182456, "Watts">>>>,
    <<<<"9","0","0","6","1">>, <<339206, -1182751, "South LA">>>>,
    <<<<"9","0","0","6","2">>, <<340031, -1183090, "South LA">>>>,
    <<<<"9","0","0","6","3">>, <<340481, -1181856, "East LA">>>>,
    <<<<"9","0","0","6","4">>, <<340281, -1184226, "Rancho Park">>>>,
    <<<<"9","0","0","6","5">>, <<341117, -1182256, "Cypress Park">>>>,
    <<<<"9","0","0","6","6">>, <<340031, -1184326, "Mar Vista">>>>,
    <<<<"9","0","0","6","7">>, <<340533, -1184126, "Century City">>>>,
    <<<<"9","0","0","6","8">>, <<341267, -1183287, "Hollywood Hills">>>>,
    <<<<"9","0","0","6","9">>, <<340900, -1183820, "West Hollywood">>>>,
    <<<<"9","0","0","7","1">>, <<340522, -1182537, "DTLA Financial">>>>,
    <<<<"9","0","0","7","7">>, <<341017, -1184476, "Bel Air">>>>,
    <<<<"9","0","0","9","4">>, <<339781, -1184476, "Playa Vista">>>>,
    <<<<"9","0","2","1","0">>, <<340901, -1184065, "Beverly Hills">>>>,
    <<<<"9","0","2","1","1">>, <<340656, -1183865, "Beverly Hills">>>>,
    <<<<"9","0","2","1","2">>, <<340578, -1184015, "Beverly Hills">>>>,
    <<<<"9","0","2","3","0">>, <<340028, -1183920, "Culver City">>>>,
    <<<<"9","0","2","3","2">>, <<340203, -1183970, "Culver City">>>>,
    <<<<"9","0","2","4","7">>, <<338911, -1182901, "Gardena">>>>,
    <<<<"9","0","2","4","8">>, <<338786, -1183070, "Gardena">>>>,
    <<<<"9","0","2","4","9">>, <<339036, -1183178, "Gardena">>>>,
    <<<<"9","0","2","5","0">>, <<339161, -1183520, "Hawthorne">>>>,
    <<<<"9","0","2","6","0">>, <<338911, -1183520, "Lawndale">>>>,
    <<<<"9","0","2","6","6">>, <<338836, -1184076, "Manhattan Beach">>>>,
    <<<<"9","0","2","7","4">>, <<337578, -1183870, "Palos Verdes">>>>,
    <<<<"9","0","2","7","5">>, <<337453, -1183620, "Rancho Palos Verdes">>>>,
    <<<<"9","0","2","7","7">>, <<338286, -1183870, "Redondo Beach">>>>,
    <<<<"9","0","2","7","8">>, <<338661, -1183770, "Redondo Beach">>>>,
    <<<<"9","0","2","9","1">>, <<339956, -1184726, "Venice">>>>,
    <<<<"9","0","2","9","2">>, <<339706, -1184526, "Marina del Rey">>>>,
    <<<<"9","0","2","9","3">>, <<339581, -1184576, "Playa del Rey">>>>,
    <<<<"9","0","3","0","1">>, <<339506, -1183520, "Inglewood">>>>,
    <<<<"9","0","3","0","2">>, <<339631, -1183401, "Inglewood">>>>,
    <<<<"9","0","3","0","3">>, <<339381, -1183287, "Inglewood">>>>,
    <<<<"9","0","3","0","4">>, <<339256, -1183620, "Lennox">>>>,
    <<<<"9","0","4","0","1">>, <<340195, -1184916, "Santa Monica">>>>,
    <<<<"9","0","4","0","2">>, <<340370, -1185016, "Santa Monica">>>>,
    <<<<"9","0","4","0","3">>, <<340295, -1184866, "Santa Monica">>>>,
    <<<<"9","0","4","0","4">>, <<340295, -1184716, "Santa Monica">>>>,
    <<<<"9","0","4","0","5">>, <<340045, -1184766, "Santa Monica">>>>,
    <<<<"9","0","5","0","1">>, <<338286, -1183070, "Torrance">>>>,
    <<<<"9","0","5","0","2">>, <<338411, -1182951, "Torrance">>>>,
    <<<<"9","0","5","0","3">>, <<338411, -1183401, "Torrance">>>>,
    <<<<"9","0","5","0","4">>, <<338661, -1183287, "Torrance">>>>,
    <<<<"9","0","5","0","5">>, <<338161, -1183520, "Torrance">>>>,
    <<<<"9","0","6","0","1">>, <<339756, -1180567, "Whittier">>>>,
    <<<<"9","0","6","0","2">>, <<339631, -1180317, "Whittier">>>>,
    <<<<"9","0","6","0","3">>, <<339381, -1179967, "Whittier">>>>,
    <<<<"9","0","6","0","4">>, <<339256, -1180067, "Whittier">>>>,
    <<<<"9","0","6","0","5">>, <<339381, -1180317, "Whittier">>>>,
    <<<<"9","0","6","0","6">>, <<339756, -1180967, "Whittier">>>>,
    <<<<"9","0","6","2","0">>, <<338536, -1180117, "Buena Park">>>>,
    <<<<"9","0","6","2","1">>, <<338786, -1179967, "Buena Park">>>>,
    <<<<"9","0","6","3","0">>, <<338036, -1180617, "Cypress">>>>,
    <<<<"9","0","6","3","1">>, <<339131, -1179517, "La Habra">>>>,
    <<<<"9","0","6","3","8">>, <<338911, -1180517, "La Mirada">>>>,
    <<<<"9","0","6","4","0">>, <<340031, -1181006, "Montebello">>>>,
    <<<<"9","0","6","5","0">>, <<339131, -1180817, "Norwalk">>>>,
    <<<<"9","0","6","6","0">>, <<339881, -1180667, "Pico Rivera">>>>,
    <<<<"9","0","6","7","0">>, <<338661, -1180817, "Santa Fe Springs">>>>,
    <<<<"9","0","6","8","0">>, <<337786, -1179817, "Stanton">>>>,
    <<<<"9","0","7","0","1">>, <<338661, -1180567, "Artesia">>>>,
    <<<<"9","0","7","0","3">>, <<338661, -1180317, "Cerritos">>>>,
    <<<<"9","0","7","0","6">>, <<338911, -1181317, "Bellflower">>>>,
    <<<<"9","0","7","1","0">>, <<337911, -1182651, "Harbor City">>>>,
    <<<<"9","0","7","1","2">>, <<338536, -1181417, "Lakewood">>>>,
    <<<<"9","0","7","1","3">>, <<338411, -1181167, "Lakewood">>>>,
    <<<<"9","0","7","1","5">>, <<338411, -1180717, "Lakewood">>>>,
    <<<<"9","0","7","1","6">>, <<338286, -1180567, "Hawaiian Gardens">>>>,
    <<<<"9","0","7","1","7">>, <<338036, -1182901, "Lomita">>>>,
    <<<<"9","0","7","2","0">>, <<337911, -1180767, "Los Alamitos">>>>,
    <<<<"9","0","7","3","1">>, <<337411, -1182801, "San Pedro">>>>,
    <<<<"9","0","7","3","2">>, <<337536, -1183120, "San Pedro">>>>,
    <<<<"9","0","7","4","0">>, <<337536, -1180767, "Seal Beach">>>>,
    <<<<"9","0","7","4","4">>, <<337911, -1182651, "Wilmington">>>>,
    <<<<"9","0","7","4","5">>, <<338161, -1182651, "Carson">>>>,
    <<<<"9","0","7","4","6">>, <<338536, -1182551, "Carson">>>>,
    <<<<"9","0","8","0","2">>, <<337661, -1181867, "Long Beach Downtown">>>>,
    <<<<"9","0","8","0","3">>, <<337536, -1181367, "Long Beach Belmont">>>>,
    <<<<"9","0","8","0","4">>, <<337786, -1181517, "Long Beach">>>>,
    <<<<"9","0","8","0","5">>, <<338661, -1181867, "Long Beach North">>>>,
    <<<<"9","0","8","0","6">>, <<337911, -1181867, "Long Beach">>>>,
    <<<<"9","0","8","0","7">>, <<338286, -1181867, "Long Beach">>>>,
    <<<<"9","0","8","0","8">>, <<338286, -1181117, "Long Beach East">>>>,
    <<<<"9","0","8","1","0">>, <<338161, -1182201, "Long Beach West">>>>,
    <<<<"9","0","8","1","3">>, <<337786, -1181817, "Long Beach">>>>,
    <<<<"9","0","8","1","4">>, <<337661, -1181517, "Long Beach Belmont">>>>,
    <<<<"9","0","8","1","5">>, <<337911, -1181117, "Long Beach">>>>,
    <<<<"9","1","0","0","1">>, <<342017, -1181306, "Altadena">>>>,
    <<<<"9","1","0","0","6">>, <<341367, -1180256, "Arcadia">>>>,
    <<<<"9","1","0","0","7">>, <<341242, -1180456, "Arcadia">>>>,
    <<<<"9","1","0","1","0">>, <<341367, -1179556, "Duarte">>>>,
    <<<<"9","1","0","1","1">>, <<342142, -1182006, "La Ca{U+00F1}ada">>>>,
    <<<<"9","1","0","1","6">>, <<341617, -1179956, "Monrovia">>>>,
    <<<<"9","1","0","2","0">>, <<342267, -1182406, "Montrose">>>>,
    <<<<"9","1","0","2","4">>, <<341742, -1180556, "Sierra Madre">>>>,
    <<<<"9","1","0","3","0">>, <<341117, -1181556, "South Pasadena">>>>,
    <<<<"9","1","0","4","0">>, <<342517, -1182906, "Sunland">>>>,
    <<<<"9","1","0","4","2">>, <<342642, -1182256, "Tujunga">>>>,
    <<<<"9","1","1","0","1">>, <<341478, -1181445, "Pasadena">>>>,
    <<<<"9","1","1","0","3">>, <<341728, -1181545, "Pasadena">>>>,
    <<<<"9","1","1","0","4">>, <<341603, -1181245, "Pasadena">>>>,
    <<<<"9","1","1","0","5">>, <<341353, -1181595, "Pasadena">>>>,
    <<<<"9","1","1","0","6">>, <<341353, -1181245, "Pasadena">>>>,
    <<<<"9","1","1","0","7">>, <<341478, -1180795, "Pasadena">>>>,
    <<<<"9","1","1","0","8">>, <<341228, -1180995, "San Marino">>>>,
    <<<<"9","1","2","0","1">>, <<341617, -1182906, "Glendale">>>>,
    <<<<"9","1","2","0","2">>, <<341617, -1182656, "Glendale">>>>,
    <<<<"9","1","2","0","3">>, <<341492, -1182556, "Glendale">>>>,
    <<<<"9","1","2","0","4">>, <<341367, -1182556, "Glendale">>>>,
    <<<<"9","1","2","0","5">>, <<341367, -1182306, "Glendale">>>>,
    <<<<"9","1","2","0","6">>, <<341617, -1182206, "Glendale">>>>,
    <<<<"9","1","2","0","7">>, <<341867, -1182606, "Glendale">>>>,
    <<<<"9","1","2","0","8">>, <<341992, -1182306, "Glendale">>>>,
    <<<<"9","1","2","1","4">>, <<342267, -1182556, "La Crescenta">>>>,
    <<<<"9","1","3","0","1">>, <<341367, -1187556, "Agoura Hills">>>>,
    <<<<"9","1","3","0","2">>, <<341367, -1186756, "Calabasas">>>>,
    <<<<"9","1","3","0","3">>, <<342017, -1186006, "Canoga Park">>>>,
    <<<<"9","1","3","0","4">>, <<342267, -1186006, "Canoga Park">>>>,
    <<<<"9","1","3","0","6">>, <<342017, -1185556, "Winnetka">>>>,
    <<<<"9","1","3","0","7">>, <<341867, -1186506, "West Hills">>>>,
    <<<<"9","1","3","1","1">>, <<342642, -1185706, "Chatsworth">>>>,
    <<<<"9","1","3","1","6">>, <<341617, -1185156, "Encino">>>>,
    <<<<"9","1","3","2","1">>, <<343892, -1185506, "Newhall">>>>,
    <<<<"9","1","3","2","4">>, <<342392, -1185406, "Northridge">>>>,
    <<<<"9","1","3","2","5">>, <<342517, -1185056, "Northridge">>>>,
    <<<<"9","1","3","2","6">>, <<342767, -1185556, "Northridge">>>>,
    <<<<"9","1","3","3","0">>, <<342392, -1185256, "Northridge">>>>,
    <<<<"9","1","3","3","1">>, <<342767, -1184256, "Pacoima">>>>,
    <<<<"9","1","3","3","5">>, <<342017, -1184706, "Reseda">>>>,
    <<<<"9","1","3","4","0">>, <<342892, -1184406, "San Fernando">>>>,
    <<<<"9","1","3","4","2">>, <<343142, -1184256, "Sylmar">>>>,
    <<<<"9","1","3","4","3">>, <<342267, -1184556, "North Hills">>>>,
    <<<<"9","1","3","4","4">>, <<342892, -1185256, "Granada Hills">>>>,
    <<<<"9","1","3","4","5">>, <<342642, -1184706, "Mission Hills">>>>,
    <<<<"9","1","3","5","0">>, <<344267, -1185356, "Santa Clarita">>>>,
    <<<<"9","1","3","5","1">>, <<344017, -1184756, "Canyon Country">>>>,
    <<<<"9","1","3","5","2">>, <<342267, -1183256, "Sun Valley">>>>,
    <<<<"9","1","3","5","4">>, <<344517, -1185606, "Valencia">>>>,
    <<<<"9","1","3","5","5">>, <<344142, -1185606, "Valencia">>>>,
    <<<<"9","1","3","5","6">>, <<341742, -1185456, "Tarzana">>>>,
    <<<<"9","1","3","6","0">>, <<341867, -1188656, "Thousand Oaks">>>>,
    <<<<"9","1","3","6","1">>, <<341367, -1188156, "Westlake Village">>>>,
    <<<<"9","1","3","6","2">>, <<341617, -1188406, "Thousand Oaks">>>>,
    <<<<"9","1","3","6","4">>, <<341617, -1185806, "Woodland Hills">>>>,
    <<<<"9","1","3","6","7">>, <<341742, -1186006, "Woodland Hills">>>>,
    <<<<"9","1","3","7","7">>, <<341492, -1187756, "Oak Park">>>>,
    <<<<"9","1","3","8","1">>, <<344017, -1185756, "Stevenson Ranch">>>>,
    <<<<"9","1","3","8","4">>, <<344767, -1186006, "Castaic">>>>,
    <<<<"9","1","4","0","1">>, <<341867, -1184256, "Van Nuys">>>>,
    <<<<"9","1","4","0","2">>, <<342267, -1184106, "Panorama City">>>>,
    <<<<"9","1","4","0","3">>, <<341492, -1184506, "Sherman Oaks">>>>,
    <<<<"9","1","4","0","5">>, <<342017, -1184256, "Van Nuys">>>>,
    <<<<"9","1","4","0","6">>, <<342017, -1184906, "Van Nuys">>>>,
    <<<<"9","1","4","1","1">>, <<341867, -1184506, "Van Nuys">>>>,
    <<<<"9","1","4","2","3">>, <<341492, -1184256, "Sherman Oaks">>>>,
    <<<<"9","1","4","3","6">>, <<341617, -1184706, "Encino">>>>,
    <<<<"9","1","5","0","1">>, <<341867, -1183256, "Burbank">>>>,
    <<<<"9","1","5","0","2">>, <<341742, -1183156, "Burbank">>>>,
    <<<<"9","1","5","0","4">>, <<342142, -1183256, "Burbank">>>>,
    <<<<"9","1","5","0","5">>, <<341867, -1183556, "Burbank">>>>,
    <<<<"9","1","5","0","6">>, <<341742, -1183406, "Burbank">>>>,
    <<<<"9","1","6","0","1">>, <<341742, -1183806, "North Hollywood">>>>,
    <<<<"9","1","6","0","2">>, <<341617, -1183606, "North Hollywood">>>>,
    <<<<"9","1","6","0","4">>, <<341492, -1183906, "Studio City">>>>,
    <<<<"9","1","6","0","5">>, <<342017, -1183906, "North Hollywood">>>>,
    <<<<"9","1","6","0","6">>, <<341867, -1183906, "North Hollywood">>>>,
    <<<<"9","1","6","0","7">>, <<341617, -1184006, "Valley Village">>>>,
    <<<<"9","1","6","0","8">>, <<341367, -1183656, "Universal City">>>>,
    <<<<"9","1","7","0","2">>, <<341117, -1178856, "Azusa">>>>,
    <<<<"9","1","7","0","6">>, <<340831, -1179517, "Baldwin Park">>>>,
    <<<<"9","1","7","0","9">>, <<340206, -1177617, "Chino Hills">>>>,
    <<<<"9","1","7","1","0">>, <<340031, -1176867, "Chino">>>>,
    <<<<"9","1","7","1","1">>, <<340956, -1177117, "Claremont">>>>,
    <<<<"9","1","7","2","2">>, <<340956, -1179317, "Covina">>>>,
    <<<<"9","1","7","2","3">>, <<340831, -1178867, "Covina">>>>,
    <<<<"9","1","7","2","4">>, <<341081, -1178567, "Covina">>>>,
    <<<<"9","1","7","3","0">>, <<341206, -1175717, "Rancho Cucamonga">>>>,
    <<<<"9","1","7","3","1">>, <<340831, -1180506, "El Monte">>>>,
    <<<<"9","1","7","3","2">>, <<340581, -1180256, "El Monte">>>>,
    <<<<"9","1","7","3","3">>, <<340456, -1180717, "South El Monte">>>>,
    <<<<"9","1","7","4","0">>, <<341206, -1178067, "Glendora">>>>,
    <<<<"9","1","7","4","1">>, <<341456, -1178267, "Glendora">>>>,
    <<<<"9","1","7","4","4">>, <<340331, -1179417, "La Puente">>>>,
    <<<<"9","1","7","4","5">>, <<340081, -1179767, "Hacienda Heights">>>>,
    <<<<"9","1","7","4","6">>, <<340456, -1179717, "La Puente">>>>,
    <<<<"9","1","7","4","8">>, <<339906, -1179117, "Rowland Heights">>>>,
    <<<<"9","1","7","5","0">>, <<341081, -1177717, "La Verne">>>>,
    <<<<"9","1","7","5","4">>, <<340456, -1181256, "Monterey Park">>>>,
    <<<<"9","1","7","5","5">>, <<340581, -1181456, "Monterey Park">>>>,
    <<<<"9","1","7","6","1">>, <<340456, -1175917, "Ontario">>>>,
    <<<<"9","1","7","6","2">>, <<340706, -1176217, "Ontario">>>>,
    <<<<"9","1","7","6","3">>, <<340706, -1176867, "Montclair">>>>,
    <<<<"9","1","7","6","4">>, <<340706, -1175617, "Ontario">>>>,
    <<<<"9","1","7","6","5">>, <<340206, -1178267, "Diamond Bar">>>>,
    <<<<"9","1","7","6","6">>, <<340581, -1177517, "Pomona">>>>,
    <<<<"9","1","7","6","7">>, <<340831, -1177317, "Pomona">>>>,
    <<<<"9","1","7","6","8">>, <<340581, -1176867, "Pomona">>>>,
    <<<<"9","1","7","7","0">>, <<340706, -1180756, "Rosemead">>>>,
    <<<<"9","1","7","7","3">>, <<341206, -1178467, "San Dimas">>>>,
    <<<<"9","1","7","7","5">>, <<341081, -1181056, "San Gabriel">>>>,
    <<<<"9","1","7","7","6">>, <<340956, -1180806, "San Gabriel">>>>,
    <<<<"9","1","7","8","0">>, <<341206, -1180256, "Temple City">>>>,
    <<<<"9","1","7","8","4">>, <<341456, -1176917, "Upland">>>>,
    <<<<"9","1","7","8","6">>, <<341206, -1176317, "Upland">>>>,
    <<<<"9","1","7","8","9">>, <<340206, -1178667, "Walnut">>>>,
    <<<<"9","1","7","9","0">>, <<340456, -1179117, "West Covina">>>>,
    <<<<"9","1","7","9","1">>, <<340706, -1179067, "West Covina">>>>,
    <<<<"9","1","7","9","2">>, <<340206, -1179067, "West Covina">>>>,
    <<<<"9","1","8","0","1">>, <<340956, -1181256, "Alhambra">>>>,
    <<<<"9","1","8","0","3">>, <<340706, -1181506, "Alhambra">>>>,
    <<<<"8","5","0">>, <<334484, -1120740, "Phoenix">>>>,
    <<<<"8","5","1">>, <<334484, -1120740, "Phoenix">>>>,
    <<<<"8","5","2">>, <<334152, -1118315, "Mesa/Tempe">>>>,
    <<<<"8","5","3">>, <<333062, -1118413, "Chandler/Gilbert">>>>,
    <<<<"8","5","6">>, <<322226, -1109747, "Tucson">>>>,
    <<<<"8","5","7">>, <<322226, -1109747, "Tucson">>>>,
    <<<<"8","5","9">>, <<348697, -1117610, "Flagstaff/Sedona">>>>,
    <<<<"8","6","0">>, <<334942, -1119261, "Scottsdale">>>>,
    <<<<"8","6","3">>, <<336189, -1123679, "Glendale/Peoria">>>>,
    <<<<"9","2","1","0","1">>, <<327197, -1171628, "Downtown SD">>>>,
    <<<<"9","2","1","0","2">>, <<327097, -1171228, "Golden Hill">>>>,
    <<<<"9","2","1","0","3">>, <<327497, -1171628, "Hillcrest">>>>,
    <<<<"9","2","1","0","4">>, <<327497, -1171228, "North Park">>>>,
    <<<<"9","2","1","0","5">>, <<327397, -1170828, "City Heights">>>>,
    <<<<"9","2","1","0","6">>, <<327197, -1172328, "Point Loma">>>>,
    <<<<"9","2","1","0","7">>, <<327397, -1172528, "Ocean Beach">>>>,
    <<<<"9","2","1","0","8">>, <<327697, -1171328, "Mission Valley">>>>,
    <<<<"9","2","1","0","9">>, <<327897, -1172528, "Pacific Beach">>>>,
    <<<<"9","2","1","1","0">>, <<327597, -1172028, "Morena/Bay Park">>>>,
    <<<<"9","2","1","1","1">>, <<328097, -1171628, "Clairemont">>>>,
    <<<<"9","2","1","1","3">>, <<326897, -1171228, "Logan Heights">>>>,
    <<<<"9","2","1","1","4">>, <<326997, -1170528, "Encanto">>>>,
    <<<<"9","2","1","1","5">>, <<327597, -1170628, "College Area">>>>,
    <<<<"9","2","1","1","6">>, <<327597, -1171228, "Normal Heights">>>>,
    <<<<"9","2","1","1","7">>, <<328297, -1172028, "Clairemont Mesa">>>>,
    <<<<"9","2","1","1","8">>, <<326797, -1171828, "Coronado">>>>,
    <<<<"9","2","1","1","9">>, <<327997, -1170228, "San Carlos">>>>,
    <<<<"9","2","1","2","0">>, <<327897, -1170628, "Grantville">>>>,
    <<<<"9","2","1","2","1">>, <<329097, -1172028, "Sorrento Valley">>>>,
    <<<<"9","2","1","2","2">>, <<328597, -1172128, "University City">>>>,
    <<<<"9","2","1","2","3">>, <<328097, -1171228, "Kearny Mesa">>>>,
    <<<<"9","2","1","2","4">>, <<328297, -1170928, "Tierrasanta">>>>,
    <<<<"9","2","1","2","6">>, <<329097, -1171428, "Mira Mesa">>>>,
    <<<<"9","2","1","2","7">>, <<330197, -1170828, "Rancho Bernardo">>>>,
    <<<<"9","2","1","2","8">>, <<330197, -1170528, "Rancho Bernardo">>>>,
    <<<<"9","2","1","2","9">>, <<329697, -1171228, "Rancho Pe{U+00F1}asquitos">>>>,
    <<<<"9","2","1","3","0">>, <<329597, -1172228, "Carmel Valley">>>>,
    <<<<"9","2","1","3","1">>, <<329297, -1170828, "Scripps Ranch">>>>,
    <<<<"9","2","1","3","4">>, <<327297, -1171428, "Naval Medical">>>>,
    <<<<"9","2","1","3","6">>, <<326797, -1171228, "Naval Station">>>>,
    <<<<"9","2","1","3","9">>, <<326697, -1170528, "Paradise Hills">>>>,
    <<<<"9","2","1","5","4">>, <<325797, -1170728, "Otay Mesa">>>>,
    <<<<"9","2","6","0","2">>, <<337397, -1177928, "Irvine">>>>,
    <<<<"9","2","6","0","3">>, <<336297, -1177828, "Irvine">>>>,
    <<<<"9","2","6","0","4">>, <<336897, -1178228, "Irvine">>>>,
    <<<<"9","2","6","0","6">>, <<336997, -1178428, "Irvine">>>>,
    <<<<"9","2","6","1","2">>, <<336597, -1178328, "Irvine">>>>,
    <<<<"9","2","6","1","4">>, <<336797, -1178628, "Irvine">>>>,
    <<<<"9","2","6","1","7">>, <<336397, -1178428, "Irvine">>>>,
    <<<<"9","2","6","1","8">>, <<336497, -1177428, "Irvine">>>>,
    <<<<"9","2","6","2","0">>, <<337097, -1177628, "Irvine">>>>,
    <<<<"9","2","6","2","6">>, <<336897, -1179028, "Costa Mesa">>>>,
    <<<<"9","2","6","2","7">>, <<336497, -1179228, "Costa Mesa">>>>,
    <<<<"9","2","6","2","9">>, <<334597, -1176628, "Dana Point">>>>,
    <<<<"9","2","6","3","0">>, <<336397, -1176728, "Lake Forest">>>>,
    <<<<"9","2","6","3","7">>, <<336097, -1177028, "Laguna Woods">>>>,
    <<<<"9","2","6","4","6">>, <<336597, -1179728, "Huntington Beach">>>>,
    <<<<"9","2","6","4","7">>, <<337197, -1179928, "Huntington Beach">>>>,
    <<<<"9","2","6","4","8">>, <<336897, -1179728, "Huntington Beach">>>>,
    <<<<"9","2","6","4","9">>, <<337297, -1180428, "Huntington Beach">>>>,
    <<<<"9","2","6","5","1">>, <<335497, -1177828, "Laguna Beach">>>>,
    <<<<"9","2","6","5","3">>, <<335997, -1176928, "Laguna Hills">>>>,
    <<<<"9","2","6","5","5">>, <<336997, -1179428, "Midway City">>>>,
    <<<<"9","2","6","5","6">>, <<335897, -1177128, "Aliso Viejo">>>>,
    <<<<"9","2","6","5","7">>, <<335997, -1178528, "Newport Coast">>>>,
    <<<<"9","2","6","6","0">>, <<336297, -1178928, "Newport Beach">>>>,
    <<<<"9","2","6","6","1">>, <<336097, -1178928, "Newport Beach">>>>,
    <<<<"9","2","6","6","2">>, <<336097, -1179128, "Newport Beach">>>>,
    <<<<"9","2","6","6","3">>, <<336197, -1179328, "Newport Beach">>>>,
    <<<<"9","2","6","7","2">>, <<334297, -1176228, "San Clemente">>>>,
    <<<<"9","2","6","7","3">>, <<334497, -1176128, "San Clemente">>>>,
    <<<<"9","2","6","7","5">>, <<335497, -1176628, "San Juan Capistrano">>>>,
    <<<<"9","2","6","7","7">>, <<335197, -1177128, "Laguna Niguel">>>>,
    <<<<"9","2","6","7","9">>, <<335997, -1176328, "Coto de Caza">>>>,
    <<<<"9","2","6","8","3">>, <<337497, -1179928, "Westminster">>>>,
    <<<<"9","2","6","8","8">>, <<336097, -1176328, "Rancho Santa Margarita">>>>,
    <<<<"9","2","6","9","1">>, <<335897, -1176528, "Mission Viejo">>>>,
    <<<<"9","2","6","9","2">>, <<336197, -1176428, "Mission Viejo">>>>,
    <<<<"9","2","6","9","4">>, <<335597, -1176028, "Ladera Ranch">>>>,
    <<<<"9","2","7","0","1">>, <<337497, -1178628, "Santa Ana">>>>,
    <<<<"9","2","7","0","2">>, <<337097, -1178628, "Santa Ana">>>>,
    <<<<"9","2","7","0","3">>, <<337497, -1179028, "Santa Ana">>>>,
    <<<<"9","2","7","0","4">>, <<337097, -1179028, "Santa Ana">>>>,
    <<<<"9","2","7","0","5">>, <<337497, -1178128, "Santa Ana">>>>,
    <<<<"9","2","7","0","6">>, <<337697, -1178828, "Santa Ana">>>>,
    <<<<"9","2","7","0","7">>, <<337097, -1178428, "Santa Ana">>>>,
    <<<<"9","2","7","0","8">>, <<337097, -1179528, "Fountain Valley">>>>,
    <<<<"9","2","7","8","0">>, <<337397, -1178228, "Tustin">>>>,
    <<<<"9","2","7","8","2">>, <<337597, -1177728, "Tustin">>>>,
    <<<<"9","2","8","0","1">>, <<338397, -1179328, "Anaheim">>>>,
    <<<<"9","2","8","0","2">>, <<338097, -1179228, "Anaheim">>>>,
    <<<<"9","2","8","0","4">>, <<338197, -1179728, "Anaheim">>>>,
    <<<<"9","2","8","0","5">>, <<338397, -1179028, "Anaheim">>>>,
    <<<<"9","2","8","0","6">>, <<338397, -1178628, "Anaheim">>>>,
    <<<<"9","2","8","0","7">>, <<338497, -1177928, "Anaheim">>>>,
    <<<<"9","2","8","0","8">>, <<338697, -1177428, "Anaheim Hills">>>>,
    <<<<"9","2","8","2","1">>, <<339297, -1178928, "Brea">>>>,
    <<<<"9","2","8","2","3">>, <<339197, -1178228, "Brea">>>>,
    <<<<"9","2","8","3","1">>, <<338797, -1179228, "Fullerton">>>>,
    <<<<"9","2","8","3","2">>, <<338697, -1179428, "Fullerton">>>>,
    <<<<"9","2","8","3","3">>, <<338697, -1179728, "Fullerton">>>>,
    <<<<"9","2","8","3","5">>, <<339097, -1179228, "Fullerton">>>>,
    <<<<"9","2","8","4","0">>, <<337497, -1179628, "Garden Grove">>>>,
    <<<<"9","2","8","4","1">>, <<337897, -1179928, "Garden Grove">>>>,
    <<<<"9","2","8","4","3">>, <<337597, -1179228, "Garden Grove">>>>,
    <<<<"9","2","8","4","4">>, <<337697, -1179728, "Garden Grove">>>>,
    <<<<"9","2","8","4","5">>, <<337897, -1179528, "Garden Grove">>>>,
    <<<<"9","2","8","6","1">>, <<337897, -1178128, "Villa Park">>>>,
    <<<<"9","2","8","6","5">>, <<338297, -1178428, "Orange">>>>,
    <<<<"9","2","8","6","6">>, <<337897, -1178528, "Orange">>>>,
    <<<<"9","2","8","6","7">>, <<338197, -1178128, "Orange">>>>,
    <<<<"9","2","8","6","8">>, <<337897, -1178828, "Orange">>>>,
    <<<<"9","2","8","6","9">>, <<338097, -1177728, "Orange">>>>,
    <<<<"9","2","8","7","0">>, <<338997, -1178628, "Placentia">>>>,
    <<<<"9","2","8","8","6">>, <<339197, -1177928, "Yorba Linda">>>>,
    <<<<"9","2","8","8","7">>, <<338897, -1177428, "Yorba Linda">>>>
  >>

\* \w, \d and \s of the re module (the ASCII part of each class)
IsWord(c) == c \in Digits \/ IsUpper(c) \/ IsLower(c) \/ c = "_"

\* \b at offset p of s, i.e. between s[p] and s[p+1]
Boundary(s, p) == (p >= 1 /\ IsWord(s[p])) # (p < Len(s) /\ IsWord(s[p + 1]))

\* \d{5} at offset p of s
FiveDigitsAt(s, p) == p + 5 <= Len(s) /\ \A j \in 1..5 : s[p + j] \in Digits

\* ZipSearch without the closing \b
ZipSearch_noend(s) ==
  LET ms == {p \in 0..(Len(s) - 5) : Boundary(s, p) /\ FiveDigitsAt(s, p)}
  IN  IF ms = {} THEN -1 ELSE Min(ms)

\* re.search(r'\b(\d{5})\b', s): the offset of the leftmost match, -1 when there is none
ZipSearch(s) ==
  LET ms == {p \in 0..(Len(s) - 5) : Boundary(s, p) /\ FiveDigitsAt(s, p) /\ Boundary(s, p + 5)}
  IN  IF ms = {} THEN -1 ELSE Min(ms)

\* \s+\d{5} at offset p of s
SpacesThenZipAt(s, p) ==
  \E w \in 1..(Len(s) - p) :
    /\ \A j \in 1..w : s[p + j] \in Whitespace
    /\ FiveDigitsAt(s, p + w)

\* re.search(r'\b([A-Z]{2})\s+\d{5}', s): the offset of the leftmost match, -1 when there is none
StateSearch(s) ==
  LET ms == {p \in 0..(Len(s) - 8) :
               /\ Boundary(s, p)
               /\ IsUpper(s[p + 1]) /\ IsUpper(s[p + 2])
               /\ SpacesThenZipAt(s, p + 2)}
  IN  IF ms = {} THEN -1 ELSE Min(ms)

\* [A-Za-z\s\.]
CityChar(c) == IsUpper(c) \/ IsLower(c) \/ c \in Whitespace \/ c = "."

\* \s+ST\s+\d{5} at offset q of s, letter case ignored
SpacesStateZipAt(s, q, state) ==
  \E w \in 1..(Len(s) - q) :
    /\ \A j \in 1..w : s[q + j] \in Whitespace
    /\ q + w + 2 <= Len(s)
    /\ UpperChar(s[q + w + 1]) = state[1] /\ UpperChar(s[q + w + 2]) = state[2]
    /\ SpacesThenZipAt(s, q + w + 2)

\* the ends q of group 1 of r'([A-Za-z\s\.]+?)\s+ST\s+\d{5}' for a match at offset p
CityEnds(s, p, state) ==
  {q \in (p + 1)..Len(s) :
     /\ \A j \in (p + 1)..q : CityChar(s[j])
     /\ SpacesStateZipAt(s, q, state)}

\* group(1) of re.search(r'([A-Za-z\s\.]+?)\s+' + state + r'\s+\d{5}', s, re.IGNORECASE):
\* leftmost start, then the shortest group; None when there is no match
CitySearch(s, state) ==
  LET ps == {p \in 0..(Len(s) - 1) : CityEnds(s, p, state) # {}}
  IN  IF ps = {} THEN None
      ELSE SubSeq(s, Min(ps) + 1, Min(CityEnds(s, Min(ps), state)))

\* parse_address: <<city, state, zip_code>>
parse_address(address) ==
  IF address = None \/ address = <<>> \/ strip(address, Whitespace) = <<>>
  THEN <<None, None, None>>
  ELSE
    LET address_upper == upper(address)
        zip_match == ZipSearch(address)
        zip_code == IF zip_match # -1 THEN SubSeq(address, zip_match + 1, zip_match + 5) ELSE None
        state_match == StateSearch(address_upper)
        potential_state == SubSeq(address_upper, state_match + 1, state_match + 2)
        state == IF state_match # -1 /\ DictHas(STATE_ABBREV, potential_state)
                 THEN potential_state ELSE None
        city_match == IF state # None THEN CitySearch(address, state) ELSE None
        city == IF city_match # None THEN strip(strip(city_match, Whitespace), {"."}) ELSE None
    IN  <<city, state, zip_code>>

\* zip_code[:3]
Prefix3(zip_code) == SubSeq(zip_code, 1, IF Len(zip_code) < 3 THEN Len(zip_code) ELSE 3)

\* get_coords trying the 3-digit prefix before the exact code
get_coords_prefixfirst(zip_code, state) ==
  IF zip_code # None /\ zip_code # <<>>
  THEN IF DictHas(ZIP_COORDS, Prefix3(zip_code)) THEN DictGet(ZIP_COORDS, Prefix3(zip_code))
       ELSE IF DictHas(ZIP_COORDS, zip_code) THEN DictGet(ZIP_COORDS, zip_code)
       ELSE None
  ELSE None

\* get_coords taking two digits as the prefix
get_coords_prefix2(zip_code, state) ==
  IF zip_code # None /\ zip_code # <<>>
  THEN IF DictHas(ZIP_COORDS, zip_code) THEN DictGet(ZIP_COORDS, zip_code)
       ELSE LET prefix == SubSeq(zip_code, 1, IF Len(zip_code) < 2 THEN Len(zip_code) ELSE 2)
            IN  IF DictHas(ZIP_COORDS, prefix) THEN DictGet(ZIP_COORDS, prefix) ELSE None
  ELSE None

get_coords(zip_code, state) ==
  IF zip_code # None /\ zip_code # <<>>
  THEN IF DictHas(ZIP_COORDS, zip_code) THEN DictGet(ZIP_COORDS, zip_code)
       ELSE IF DictHas(ZIP_COORDS, Prefix3(zip_code)) THEN DictGet(ZIP_COORDS, Prefix3(zip_code))
       ELSE None
  ELSE None

(***************************************************************************)
(* main() and generate_html() of the two scripts                           *)
(***************************************************************************)
\* a Counter that goes on counting only the key it inserted last
CounterInc_lastonly(c, k) ==
  DictSet(c, k, (IF DictHas(c, k) /\ c[Len(c)][1] = k THEN DictGet(c, k) ELSE 0) + 1)

\* Counter: c[k] += 1
CounterInc(c, k) == DictSet(c, k, (IF DictHas(c, k) THEN DictGet(c, k) ELSE 0) + 1)

\* LocationsInc without the test `if key not in locations`
LocationsInc_nocheck(locs, coords) ==
  DictSet(locs, <<coords[1], coords[2]>>,
          [count |-> 1, name |-> coords[3], lat |-> coords[1], lng |-> coords[2]])

\* the statements
\*   if key not in locations: locations[key] = {'count': 0, 'name': name, 'lat': lat, 'lng': lng}
\*   locations[key]['count'] += 1
LocationsInc(locs, coords) ==
  LET key == <<coords[1], coords[2]>>
      cur == IF DictHas(locs, key) THEN DictGet(locs, key)
             ELSE [count |-> 0, name |-> coords[3], lat |-> coords[1], lng |-> coords[2]]
  IN  DictSet(locs, key, [cur EXCEPT !.count = cur.count + 1])

RECURSIVE SortedByCount_lasttie(_)
\* SortedByCount taking, among equal counts, the key seen last first
SortedByCount_lasttie(c) ==
  IF c = <<>> THEN <<>>
  ELSE LET top == Max({c[n][2] : n \in 1..Len(c)})
           last == Max({n \in 1..Len(c) : c[n][2] = top})
       IN  <<c[last]>> \o SortedByCount_lasttie(SubSeq(c, 1, last - 1) \o SubSeq(c, last + 1, Len(c)))

RECURSIVE SortedByCount(_)
\* sorted(c.items(), key=itemgetter(1), reverse=True): descending count, equal counts in dict order
SortedByCount(c) ==
  IF c = <<>> THEN <<>>
  ELSE LET top == Max({c[n][2] : n \in 1..Len(c)})
           first == Min({n \in 1..Len(c) : c[n][2] = top})
       IN  <<c[first]>> \o SortedByCount(SubSeq(c, 1, first - 1) \o SubSeq(c, first + 1, Len(c)))

\* Counter.most_common(n)
most_common(c, n) == SubSeq(SortedByCount(c), 1, IF Len(c) < n THEN Len(c) ELSE n)

\* [v for v in locations.values()]
loc_data(locs) == [n \in 1..Len(locs) |-> locs[n][2]]

MaxRows == 3

TopN == 15

JetFields ==
  { None, <<>>, <<"N","/","A">>, <<"M","a","r","s">>, <<"T","o","k","y","o">>, <<"o","k">>,
    <<"O","s","a","k","a"," ","P","r","e","f","e","c","t","u","r","e">>,
    PREFECTURE_ALIASES[1][1] }

AddressFields ==
  { None, <<>>,
    <<"U","n","k","n","o","w","n"," ","l","o","c","a","t","i","o","n">>,
    <<"1","2","3"," ","M","a","i","n"," ","S","t",","," ","L","o","s"," ","A","n","g","e","l","e","s"," ","C","A"," ","9","0","0","1","2">>,
    <<"L","o","s"," ","A","n","g","e","l","e","s"," ","9","0","0","1","2">>,
    <<"A","u","s","t","i","n"," ","T","X"," ","7","3","3","0","1">>,
    <<"L","A"," ","C","A"," ","9","0","0","0","1","9">>,
    <<"O","a","k","l","a","n","d"," ","C","A"," ","9","4","6","0","1">>,
    <<"C","o","n","c","o","r","d"," ","C","A"," ","9","4","7","0","1">> }

\* the state of main() before the loop; the csv file holds the rows `rows`
Init ==
  /\ \/ prog = "jet" /\ rows \in Text(JetFields, MaxRows)
     \/ prog = "residence" /\ rows \in Text(AddressFields, MaxRows)
  /\ pc = "loop"
  /\ total = 0 /\ mapped = 0 /\ parsed = 0 /\ geocoded = 0
  /\ prefectures = <<>> /\ states = <<>> /\ locations = <<>>
  /\ out = None /\ err = "none"
  /\ op = "none" /\ arg = None /\ ret = None

\* JetRow counting every record as mapped
JetRow_countall ==
  /\ prog = "jet" /\ pc = "loop" /\ total < Len(rows)
  /\ total' = total + 1
  /\ mapped' = mapped + 1
  /\ LET pref_raw == rows[total + 1]
         pref == normalize_prefecture(pref_raw)
     IN  IF pref # None /\ DictHas(PREFECTURE_COORDS, pref)
         THEN /\ prefectures' = CounterInc(prefectures, pref)
              /\ locations' = LocationsInc(locations, DictGet(PREFECTURE_COORDS, pref))
         ELSE UNCHANGED <<prefectures, locations>>
  /\ UNCHANGED <<prog, rows, pc, parsed, geocoded, states, out, err, op, arg, ret>>

\* jet main(), one pass of `for row in reader`
JetRow ==
  /\ prog = "jet" /\ pc = "loop" /\ total < Len(rows)
  /\ total' = total + 1
  /\ LET pref_raw == rows[total + 1]
         pref == normalize_prefecture(pref_raw)
     IN  IF pref # None /\ DictHas(PREFECTURE_COORDS, pref)
         THEN /\ mapped' = mapped + 1
              /\ prefectures' = CounterInc(prefectures, pref)
              /\ locations' = LocationsInc(locations, DictGet(PREFECTURE_COORDS, pref))
         ELSE UNCHANGED <<mapped, prefectures, locations>>
  /\ UNCHANGED <<prog, rows, pc, parsed, geocoded, states, out, err, op, arg, ret>>

\* jet main(), the summary printed after the loop: {mapped*100//total}
JetSummary ==
  /\ prog = "jet" /\ pc = "loop" /\ total = Len(rows)
  /\ IF total = 0
     THEN pc' = "error" /\ err' = "ZeroDivisionError"
     ELSE pc' = "html" /\ err' = err
  /\ UNCHANGED <<prog, rows, total, mapped, parsed, geocoded, prefectures, states,
                 locations, out, op, arg, ret>>

\* jet generate_html(prefectures, locations, total, mapped, output_path):
\* the page shows {prefectures.most_common(1)[0][0]}
JetGenerateHtml ==
  /\ prog = "jet" /\ pc = "html"
  /\ IF most_common(prefectures, 1) = <<>>
     THEN pc' = "error" /\ err' = "IndexError" /\ out' = out
     ELSE /\ pc' = "done" /\ err' = err
          /\ out' = [loc_data   |-> loc_data(locations),
                     categories |-> most_common(prefectures, TopN),
                     total      |-> total,
                     resolved   |-> mapped,
                     distinct   |-> Len(prefectures)]
  /\ UNCHANGED <<prog, rows, total, mapped, parsed, geocoded, prefectures, states,
                 locations, op, arg, ret>>

\* ResidenceRow without the statement `geocoded += 1`
ResidenceRow_nogeocoded ==
  /\ prog = "residence" /\ pc = "loop" /\ total < Len(rows)
  /\ total' = total + 1
  /\ LET address == rows[total + 1]
         r == parse_address(address)
         state == r[2]
         zip_code == r[3]
     IN  IF state # None
         THEN /\ parsed' = parsed + 1
              /\ states' = CounterInc(states, state)
              /\ LET coords == get_coords(zip_code, state)
                 IN  IF coords # None
                     THEN locations' = LocationsInc(locations, coords)
                     ELSE UNCHANGED locations
         ELSE UNCHANGED <<parsed, states, locations>>
  /\ UNCHANGED <<prog, rows, pc, geocoded, mapped, prefectures, out, err, op, arg, ret>>

\* ResidenceRow counting the state only for a record that is geocoded
ResidenceRow_geocodedonly ==
  /\ prog = "residence" /\ pc = "loop" /\ total < Len(rows)
  /\ total' = total + 1
  /\ LET address == rows[total + 1]
         r == parse_address(address)
         state == r[2]
         zip_code == r[3]
     IN  IF state # None
         THEN /\ parsed' = parsed + 1
              /\ LET coords == get_coords(zip_code, state)
                 IN  IF coords # None
                     THEN /\ geocoded' = geocoded + 1
                          /\ states' = CounterInc(states, state)
                          /\ locations' = LocationsInc(locations, coords)
                     ELSE UNCHANGED <<geocoded, states, locations>>
         ELSE UNCHANGED <<parsed, states, geocoded, locations>>
  /\ UNCHANGED <<prog, rows, pc, mapped, prefectures, out, err, op, arg, ret>>

\* residence main(), one pass of `for row in reader`
ResidenceRow ==
  /\ prog = "residence" /\ pc = "loop" /\ total < Len(rows)
  /\ total' = total + 1
  /\ LET address == rows[total + 1]
         r == parse_address(address)
         state == r[2]
         zip_code == r[3]
     IN  IF state # None
         THEN /\ parsed' = parsed + 1
              /\ states' = CounterInc(states, state)
              /\ LET coords == get_coords(zip_code, state)
                 IN  IF coords # None
                     THEN /\ geocoded' = geocoded + 1
                          /\ locations' = LocationsInc(locations, coords)
                     ELSE UNCHANGED <<geocoded, locations>>
         ELSE UNCHANGED <<parsed, states, geocoded, locations>>
  /\ UNCHANGED <<prog, rows, pc, mapped, prefectures, out, err, op, arg, ret>>

\* residence main(), the summary printed after the loop: {parsed*100//total}
ResidenceSummary ==
  /\ prog = "residence" /\ pc = "loop" /\ total = Len(rows)
  /\ IF total = 0
     THEN pc' = "error" /\ err' = "ZeroDivisionError"
     ELSE pc' = "html" /\ err' = err
  /\ UNCHANGED <<prog, rows, total, mapped, parsed, geocoded, prefectures, states,
                 locations, out, op, arg, ret>>

\* the label of a state in the bar chart: STATE_ABBREV.get(s, s)
StateLabel(s) == IF DictHas(STATE_ABBREV, s) THEN DictGet(STATE_ABBREV, s) ELSE s

\* residence generate_html(states, locations, total, parsed, geocoded, output_path)
ResidenceGenerateHtml ==
  /\ prog = "residence" /\ pc = "html"
  /\ pc' = "done"
  /\ out' = [loc_data   |-> loc_data(locations),
             categories |-> [n \in 1..Len(most_common(states, TopN)) |->
                               <<StateLabel(most_common(states, TopN)[n][1]),
                                 most_common(states, TopN)[n][2]>>],
             total      |-> total,
             resolved   |-> geocoded,
             distinct   |-> Len(locations)]
  /\ UNCHANGED <<prog, rows, total, mapped, parsed, geocoded, prefectures, states,
                 locations, err, op, arg, ret>>

Next ==
  \/ JetRow
  \/ JetSummary
  \/ JetGenerateHtml
  \/ ResidenceRow
  \/ ResidenceSummary
  \/ ResidenceGenerateHtml

Spec == Init /\ [][Next]_vars

(***************************************************************************)
(* Properties of the runs (Spec)                                           *)
(***************************************************************************)
\* C1: with zero records the run completes without error and emits a
\* summary with total = 0, resolved_count = 0, no buckets and no categories
\* (in both pipelines).
C1_EmptyInputSummary ==
  rows = <<>> =>
    /\ pc # "error"
    /\ pc = "done" =>
         /\ out.total = 0 /\ out.resolved = 0
         /\ out.loc_data = <<>> /\ out.categories = <<>>

\* C2: for a non-empty input, whatever the field values, records are taken
\* one at a time in input order and no record or combination of records
\* puts the run in an error state.
C2_NeverAborts ==
  Len(rows) > 0 => total <= Len(rows) /\ pc # "error" /\ err = "none"

\* the number of records counted in the bucket of the coordinates of coords
BucketCount(locs, coords) ==
  IF DictHas(locs, <<coords[1], coords[2]>>)
  THEN DictGet(locs, <<coords[1], coords[2]>>).count ELSE 0

\* the region the Postal Resolver gives for the postal code parsed from the address
ResolvedRegion(address) == get_coords(parse_address(address)[3], None)

\* C10: in the address pipeline a record whose parsed postal code resolves
\* to a region adds one to that region's bucket, whether or not a state code
\* was parsed from the record.
C10_ResolvedZipCounted ==
  [][prog = "residence" /\ total' = total + 1 /\ ResolvedRegion(rows[total + 1]) # None
       => BucketCount(locations', ResolvedRegion(rows[total + 1]))
            = BucketCount(locations, ResolvedRegion(rows[total + 1])) + 1]_vars

(***************************************************************************)
(* normalize_prefecture applied on its own to one raw text                 *)
(***************************************************************************)
MaxPad == 2

MaxLen == 3

PadChars == {" ", "\""}

NormChars == {"o", "k", "x"}

NormSamples ==
  { <<"N","/","A">>,
    <<"O","s","a","k","a"," ","P","r","e","f","e","c","t","u","r","e">>,
    <<"T","O","K","Y","O">>,
    <<"U","n","k","n","o","w","n">>,
    <<"M","i","e","-","k","e","n">>,
    <<"\t","\n">> }

NormBodies ==
  {PREFECTURE_ALIASES[n][1] : n \in 1..Len(PREFECTURE_ALIASES)}
    \cup NormSamples \cup Text(NormChars, MaxLen)

\* the raw fields tried: missing, every canonical key, and every alias, sample
\* and short text between up to MaxPad blanks / double quotes on either side
NormInputs ==
  {None}
    \cup {PREFECTURE_COORDS[n][1] : n \in 1..Len(PREFECTURE_COORDS)}
    \cup {pre \o body \o post : pre \in Text(PadChars, MaxPad),
                                 body \in NormBodies,
                                 post \in Text(PadChars, MaxPad)}

Idle ==
  /\ prog = "none" /\ rows = <<>> /\ pc = "done" /\ total = 0 /\ mapped = 0
  /\ parsed = 0 /\ geocoded = 0 /\ prefectures = <<>> /\ states = <<>>
  /\ locations = <<>> /\ out = None /\ err = "none"

InitNormalize == Idle /\ op = "call" /\ arg \in NormInputs /\ ret = None

CallNormalize ==
  /\ op = "call"
  /\ ret' = normalize_prefecture(arg)
  /\ op' = "normalize_prefecture"
  /\ UNCHANGED <<mainVars, arg>>

SpecNormalize == InitNormalize /\ [][CallNormalize]_vars

(***************************************************************************)
(* parse_address and get_coords applied on their own                       *)
(***************************************************************************)
MaxFrags == 4

AddrFrags ==
  { <<"C","A"," ">>, <<"L","o"," ">>, <<"X","X"," ">>,
    <<"9","0","0","1","2">>, <<"1","2","3","4","5">>, <<"9">>, <<",">> }

AddrSamples ==
  { <<"1","2","3"," ","M","a","i","n"," ","S","t",","," ","L","o","s"," ","A","n","g","e","l","e","s"," ","C","A"," ","9","0","0","1","2">>,
    <<"U","n","k","n","o","w","n"," ","l","o","c","a","t","i","o","n">>,
    <<"1","2","3","4","5"," ","O","a","k"," ","S","t",","," ","P","h","o","e","n","i","x"," ","A","Z"," ","8","5","0","0","1">>,
    <<"X","X"," ","9","0","0","1","2",","," ","C","A"," ","9","0","0","1","2">>,
    <<"l","o","s"," ","a","n","g","e","l","e","s"," ","c","a"," ","9","0","0","1","2">>,
    <<"9","0","0","1","2","_">>,
    <<"C","A","\t","9","0","0","1","2">>,
    <<"S","t","."," ","P","a","u","l"," ","M","N"," ","5","5","1","0","1","-","1","2","3","4">>,
    <<" "," ">> }

RECURSIVE Join(_)
\* ''.join(parts)
Join(parts) == IF parts = <<>> THEN <<>> ELSE Head(parts) \o Join(Tail(parts))

\* the address fields tried: missing, the samples, and every text made of up to MaxFrags fragments
AddrInputs == {None} \cup AddrSamples \cup {Join(parts) : parts \in Text(AddrFrags, MaxFrags)}

InitParse == Idle /\ op = "call" /\ arg \in AddrInputs /\ ret = None

CallParse ==
  /\ op = "call"
  /\ ret' = parse_address(arg)
  /\ op' = "parse_address"
  /\ UNCHANGED <<mainVars, arg>>

SpecParse == InitParse /\ [][CallParse]_vars

ZipDigits == {"0", "1", "2", "9"}

\* the arguments tried: <<zip_code, state>> for no postal code, every key of
\* ZIP_COORDS, and every text of up to five of the digits of ZipDigits
ZipInputs ==
  ({None} \cup {ZIP_COORDS[n][1] : n \in 1..Len(ZIP_COORDS)} \cup Text(ZipDigits, 5))
    \X {None, <<"C","A">>}

InitResolve == Idle /\ op = "call" /\ arg \in ZipInputs /\ ret = None

CallResolve ==
  /\ op = "call"
  /\ ret' = get_coords(arg[1], arg[2])
  /\ op' = "get_coords"
  /\ UNCHANGED <<mainVars, arg>>

SpecResolve == InitResolve /\ [][CallResolve]_vars

(***************************************************************************)
(* Properties of normalize_prefecture (SpecNormalize)                      *)
(***************************************************************************)
Normalized == op = "normalize_prefecture"

\* a raw field that is missing, empty, only whitespace, or the literal N/A
SentinelInput(raw) ==
  \/ raw = None
  \/ raw # None /\ \A k \in 1..Len(raw) : raw[k] \in Whitespace
  \/ raw = <<"N","/","A">>

\* C3: normalize returns Unresolved for a raw input that is missing, empty,
\* only whitespace (of any length) or the literal "N/A", and leaves the
\* run's state as it was.
C3_SentinelUnresolved == Normalized /\ SentinelInput(arg) => ret = None /\ Idle

C3_Witness ==
  /\ Normalized /\ ret = None
  /\ arg \in {<<" "," "," ">>, <<" ","\t","\n"," ">>, <<"N","/","A">>}

TokyoAlias == PREFECTURE_ALIASES[1][1]

\* raw is the text A between whitespace and double-quote characters only
Padded(raw, A) ==
  /\ raw # None
  /\ \E k \in 0..(Len(raw) - Len(A)) :
       /\ \A j \in 1..Len(A) : raw[k + j] = A[j]
       /\ \A j \in (1..k) \cup ((k + Len(A) + 1)..Len(raw)) : raw[j] \in Whitespace \cup {"\""}

\* C4: for every entry (A -> K) of the alias table, normalize of A, also
\* when A is surrounded by whitespace or double-quote characters, is K,
\* whatever the containment loop returns for it; the text
\* "Tokyo Metropolitan Government<U+6771 U+4EAC U+90FD>" resolves to Tokyo.
C4_AliasResolves ==
  Normalized =>
    /\ \A n \in 1..Len(PREFECTURE_ALIASES) :
         Padded(arg, PREFECTURE_ALIASES[n][1]) => ret = PREFECTURE_ALIASES[n][2]
    /\ arg = TokyoAlias => ret = <<"T","o","k","y","o">>

C4_Witness ==
  /\ Normalized
  /\ arg = <<" ", "\"">> \o TokyoAlias \o <<"\"", " ">>
  /\ ret = <<"T","o","k","y","o">>

\* the text the containment loop sees (line 86 of the script)
Trimmed(raw) == strip(strip(raw, Whitespace), {"\""})

\* the positions, in table order, of the keys that contain the text or are
\* contained in it, letter case ignored
Matching(t) ==
  {n \in 1..Len(PREFECTURE_COORDS) :
     \/ Contains(lower(PREFECTURE_COORDS[n][1]), lower(t))
     \/ Contains(lower(t), lower(PREFECTURE_COORDS[n][1]))}

\* C5: when the raw input is not a sentinel and its trimmed text is not an
\* alias, normalize returns the first key in table order that contains the
\* trimmed text or is contained in it (case-insensitively), and Unresolved
\* exactly when there is no such key.
C5_FirstContainment ==
  Normalized /\ ~SentinelInput(arg) /\ ~DictHas(PREFECTURE_ALIASES, Trimmed(arg)) =>
    LET m == Matching(Trimmed(arg))
    IN  /\ m # {} => ret = PREFECTURE_COORDS[Min(m)][1]
        /\ m = {} <=> ret = None

C5_Witness ==
  /\ Normalized
  /\ arg = <<"o","k">>
  /\ Cardinality(Matching(arg)) > 1
  /\ ret = <<"H","o","k","k","a","i","d","o">>


(***************************************************************************)
(* Properties of get_coords (SpecResolve)                                  *)
(***************************************************************************)
Resolved == op = "get_coords"

\* the lines of ZIP_COORDS with a 5-digit key (fine-grained) and with a 3-digit key (coarse)
Fine == {n \in 1..Len(ZIP_COORDS) : Len(ZIP_COORDS[n][1]) = 5}

Coarse == {n \in 1..Len(ZIP_COORDS) : Len(ZIP_COORDS[n][1]) = 3}

FineAt(code) == {n \in Fine : ZIP_COORDS[n][1] = code}

\* the coarse lines whose key is the first three digits of the code
CoarseAt(code) ==
  {n \in Coarse : Len(code) >= 3 /\ \A j \in 1..3 : ZIP_COORDS[n][1][j] = code[j]}

\* C6: for a 5-digit postal code that is a key of the fine-grained entries,
\* resolve returns exactly that entry and not the entry of its 3-digit
\* prefix, also when the prefix has a coarse entry with other coordinates
\* or another name.
C6_ExactFirst ==
  Resolved /\ arg[1] # None /\ FineAt(arg[1]) # {} =>
    /\ \A n \in FineAt(arg[1]) : ret = ZIP_COORDS[n][2]
    /\ \A n \in CoarseAt(arg[1]) :
         ZIP_COORDS[n][2] # ZIP_COORDS[CHOOSE m \in FineAt(arg[1]) : TRUE][2]
           => ret # ZIP_COORDS[n][2]

C6_Witness ==
  /\ Resolved
  /\ arg[1] = <<"9","0","0","1","2">>
  /\ ret = <<340622, -1182406, "Chinatown/Civic Center">>
  /\ \E n \in CoarseAt(arg[1]) : ZIP_COORDS[n][2] = <<340522, -1182437, "Downtown LA">>

\* C7: for a postal code that is not a key of the fine-grained entries,
\* resolve returns the coarse entry of its first three digits when there is
\* one and Unresolved otherwise; resolve(none) is Unresolved; and whatever
\* resolve returns is the entry of the code or of its 3-digit prefix.
C7_PrefixFallback ==
  Resolved =>
    /\ arg[1] = None => ret = None
    /\ arg[1] # None /\ FineAt(arg[1]) = {} =>
         /\ \A n \in CoarseAt(arg[1]) : ret = ZIP_COORDS[n][2]
         /\ CoarseAt(arg[1]) = {} => ret = None
    /\ ret # None =>
         \E n \in FineAt(arg[1]) \cup CoarseAt(arg[1]) : ret = ZIP_COORDS[n][2]

C7_Witness ==
  /\ Resolved
  /\ arg[1] = <<"9","0","0","0","1">>
  /\ FineAt(arg[1]) = {}
  /\ ret = <<340522, -1182437, "Downtown LA">>

(***************************************************************************)
(* Properties of parse_address (SpecParse)                                 *)
(***************************************************************************)
Parsed == op = "parse_address"

\* s[a..b] is a token of s: a maximal run of word characters
TokenAt(s, a, b) ==
  /\ 1 <= a /\ a <= b /\ b <= Len(s)
  /\ \A j \in a..b : IsWord(s[j])
  /\ a = 1 \/ ~IsWord(s[a - 1])
  /\ b = Len(s) \/ ~IsWord(s[b + 1])

\* where the standalone 5-digit tokens of s start
FiveDigitTokens(s) ==
  {a \in 1..(Len(s) - 4) : TokenAt(s, a, a + 4) /\ \A j \in a..(a + 4) : s[j] \in Digits}

\* C9: parse returns as postal_code the leftmost standalone 5-digit token of
\* the raw text and none when the text has no such token; a run of more or
\* fewer than 5 digits never yields a postal code.
C9_FirstFiveDigitToken ==
  Parsed =>
    IF arg = None \/ FiveDigitTokens(arg) = {}
    THEN ret[3] = None
    ELSE ret[3] = SubSeq(arg, Min(FiveDigitTokens(arg)), Min(FiveDigitTokens(arg)) + 4)

C9_Witness ==
  /\ Parsed
  /\ arg = <<"9","0","0","1","2","9",",","1","2","3","4","5">>
  /\ ret[3] = <<"1","2","3","4","5">>

\* S stands in raw as a 2-letter uppercase token followed, after whitespace
\* only, by the 5-digit token that starts at position z
StateBeforeToken(raw, S, z) ==
  \E a \in 1..(Len(raw) - 1) :
    /\ TokenAt(raw, a, a + 1)
    /\ raw[a] = S[1] /\ raw[a + 1] = S[2]
    /\ IsUpper(raw[a]) /\ IsUpper(raw[a + 1])
    /\ a + 2 < z
    /\ \A j \in (a + 2)..(z - 1) : raw[j] \in Whitespace

\* C8: parse returns a state code S only if S is in the state/territory
\* enumeration and stands in the raw text as a 2-letter uppercase token
\* immediately followed (whitespace only in between) by the very 5-digit
\* token that parse returns as postal_code.
C8_StateBeforeReturnedZip ==
  Parsed /\ ret[2] # None =>
    /\ DictHas(STATE_ABBREV, ret[2])
    /\ ret[3] # None
    /\ FiveDigitTokens(arg) # {}
    /\ StateBeforeToken(arg, ret[2], Min(FiveDigitTokens(arg)))

(***************************************************************************)
(* Properties of the aggregation (Spec)                                    *)
(***************************************************************************)
\* what parse_address and normalize_prefecture return for each field of the input
ParsedField == [a \in AddressFields |-> parse_address(a)]

NormalizedField == [f \in JetFields |-> normalize_prefecture(f)]

\* the keys of a dict
Keys(d) == {d[n][1] : n \in 1..Len(d)}

\* the count of a label in a Counter, 0 for a label it does not hold
CategoryCount(c, label) == IF DictHas(c, label) THEN DictGet(c, label) ELSE 0

AustinTX == <<"A","u","s","t","i","n"," ","T","X"," ","7","3","3","0","1">>

\* C11: in the address pipeline a record from which a valid state code is
\* parsed adds exactly one to that state's category count and to no other,
\* whether or not its postal code is present or resolves; a record without
\* a state code changes no category count.
C11_StateCounted ==
  [][prog = "residence" /\ total' = total + 1 =>
       /\ Keys(states') \subseteq Keys(STATE_ABBREV)
       /\ \A code \in Keys(STATE_ABBREV) :
            CategoryCount(states', code) =
              CategoryCount(states, code)
                + (IF ParsedField[rows[total + 1]][2] = code THEN 1 ELSE 0)]_vars

C11_Witness ==
  /\ prog = "residence" /\ total = 1 /\ rows[1] = AustinTX
  /\ ParsedField[AustinTX][2] = <<"T","X">>
  /\ get_coords(ParsedField[AustinTX][3], <<"T","X">>) = None
  /\ CategoryCount(states, <<"T","X">>) = 1
  /\ locations = <<>>

\* the Gazetteer entry a record with this field is aggregated to by the loop
\* of main(), None when the loop leaves the buckets alone
JetRegion ==
  [f \in JetFields |->
     IF NormalizedField[f] # None /\ DictHas(PREFECTURE_COORDS, NormalizedField[f])
     THEN DictGet(PREFECTURE_COORDS, NormalizedField[f]) ELSE None]

ResidenceRegion ==
  [a \in AddressFields |->
     IF ParsedField[a][2] # None
     THEN get_coords(ParsedField[a][3], ParsedField[a][2]) ELSE None]

Region(n) == IF prog = "jet" THEN JetRegion[rows[n]] ELSE ResidenceRegion[rows[n]]

\* the processed records aggregated to the coordinate pair key
AggregatedTo(key) ==
  {n \in 1..total : Region(n) # None /\ <<Region(n)[1], Region(n)[2]>> = key}

BucketsMatchRecords ==
  /\ \A i, j \in 1..Len(locations) : locations[i][1] = locations[j][1] => i = j
  /\ \A i \in 1..Len(locations) :
       /\ locations[i][2].count >= 1
       /\ locations[i][2].count = Cardinality(AggregatedTo(locations[i][1]))
  /\ \A n \in 1..total :
       Region(n) # None => DictHas(locations, <<Region(n)[1], Region(n)[2]>>)

BucketsGrow ==
  /\ \A i \in 1..Len(locations) :
       /\ DictHas(locations', locations[i][1])
       /\ DictGet(locations', locations[i][1]).count >= locations[i][2].count
  /\ total' = total + 1 /\ Region(total + 1) # None =>
       \E i \in 1..Len(locations') :
         /\ locations'[i][1] = <<Region(total + 1)[1], Region(total + 1)[2]>>
         /\ locations'[i][2].count =
              BucketCount(locations, Region(total + 1)) + 1
         /\ \A j \in 1..Len(locations') \ {i} :
              locations'[j][2].count = BucketCount(locations, <<locations'[j][1][1], locations'[j][1][2]>>)

\* C12: in both pipelines, after any number of processed records there is a
\* bucket for a coordinate pair exactly when at least one processed record
\* was aggregated to it, its count is at least 1 and equals the number of
\* those records, each aggregated record adds one to exactly one bucket, and
\* no step removes a bucket or lowers a count.
C12_BucketsCountRecords == []BucketsMatchRecords /\ [][BucketsGrow]_vars

C12_Witness ==
  /\ total = 3 /\ Len(locations) = 2
  /\ \E i \in 1..2 : locations[i][2].count = 2 /\ Cardinality(AggregatedTo(locations[i][1])) = 2

(***************************************************************************)
(* main() run on a file and again on the same records in another order     *)
(***************************************************************************)
MaxOrderRows == 3

OrderJetFields == { None, <<"T","o","k","y","o">>, <<"o","k">> }

OrderAddressFields ==
  { <<"1","2","3"," ","M","a","i","n"," ","S","t",","," ","L","o","s"," ","A","n","g","e","l","e","s"," ","C","A"," ","9","0","0","1","2">>,
    <<"O","a","k","l","a","n","d"," ","C","A"," ","9","4","6","0","1">>,
    <<"C","o","n","c","o","r","d"," ","C","A"," ","9","4","7","0","1">>,
    AustinTX }

\* the sequences holding the elements of s in another (or the same) order
Reorderings(s) ==
  {[i \in 1..Len(s) |-> s[f[i]]] :
     f \in {g \in [1..Len(s) -> 1..Len(s)] : \A i, j \in 1..Len(s) : g[i] = g[j] => i = j}}

\* what the loop of main() has accumulated: total, the resolved counts, the
\* buckets with their counts and the category counts
Aggregate ==
  [total      |-> total,
   resolved   |-> IF prog = "jet" THEN mapped ELSE geocoded,
   parsed     |-> parsed,
   buckets    |-> {<<locations[i][1], locations[i][2].count>> : i \in 1..Len(locations)},
   categories |-> {prefectures[i] : i \in 1..Len(prefectures)}
                    \cup {states[i] : i \in 1..Len(states)}]

InitOrder ==
  /\ \/ prog = "jet" /\ rows \in Text(OrderJetFields, MaxOrderRows)
     \/ prog = "residence" /\ rows \in Text(OrderAddressFields, MaxOrderRows)
  /\ pc = "loop"
  /\ total = 0 /\ mapped = 0 /\ parsed = 0 /\ geocoded = 0
  /\ prefectures = <<>> /\ states = <<>> /\ locations = <<>>
  /\ out = None /\ err = "none"
  /\ op = "first" /\ arg = None /\ ret = None

\* the loop has consumed the file: keep what it accumulated in ret and the
\* file in arg, and start main() again on a file with the same records in
\* some order
RunReordered ==
  /\ op = "first" /\ pc = "loop" /\ total = Len(rows)
  /\ ret' = Aggregate /\ arg' = rows
  /\ rows' \in Reorderings(rows)
  /\ op' = "second"
  /\ total' = 0 /\ mapped' = 0 /\ parsed' = 0 /\ geocoded' = 0
  /\ prefectures' = <<>> /\ states' = <<>> /\ locations' = <<>>
  /\ UNCHANGED <<prog, pc, out, err>>

NextOrder == JetRow \/ ResidenceRow \/ RunReordered

SpecOrder == InitOrder /\ [][NextOrder]_vars

\* C13: when the loop of main() has consumed the records of a file in one
\* order and then the same records in any other order, the second run ends
\* with the same total, the same resolved count, the same buckets with the
\* same counts and the same category counts as the first.
C13_OrderIndependent ==
  op = "second" /\ total = Len(rows) => Aggregate = ret

C13_Witness ==
  /\ op = "second" /\ total = Len(rows) /\ Len(rows) = 3 /\ rows # arg
  /\ rows[1] # rows[2] /\ rows[2] # rows[3] /\ rows[1] # rows[3]
  /\ Len(locations) >= 2 /\ Aggregate = ret

UnknownLocation == <<"U","n","k","n","o","w","n"," ","l","o","c","a","t","i","o","n">>
MainSt == <<"1","2","3"," ","M","a","i","n"," ","S","t",","," ","L","o","s"," ","A","n","g","e","l","e","s"," ","C","A"," ","9","0","0","1","2">>

\* the location field of record n is missing or empty, or no prefecture
\* (jet), no state and no postal code (residence) is found in it
NothingFound(n) ==
  \/ rows[n] = None
  \/ rows[n] = <<>>
  \/ prog = "jet" /\ NormalizedField[rows[n]] = None
  \/ prog = "residence" /\ ParsedField[rows[n]][2] = None /\ ParsedField[rows[n]][3] = None

\* C14: a record in whose location field nothing is found (missing, empty,
\* no prefecture, or neither state nor postal code) adds exactly one to
\* total and leaves the resolved counts, every bucket and every category
\* count as they were.
C14_UnresolvedOnlyTotal ==
  [][pc = "loop" /\ total < Len(rows) /\ NothingFound(total + 1) =>
       /\ total' = total + 1
       /\ UNCHANGED <<mapped, parsed, geocoded, prefectures, states, locations>>]_vars

C14_JetWitness ==
  /\ prog = "jet" /\ total = 2 /\ rows[1] = <<"T","o","k","y","o">>
  /\ rows[2] = <<"M","a","r","s">> /\ NormalizedField[rows[2]] = None
  /\ mapped = 1 /\ Len(locations) = 1 /\ Len(prefectures) = 1

C14_Witness ==
  /\ prog = "residence" /\ total = 2 /\ rows[1] = MainSt /\ rows[2] = UnknownLocation
  /\ ParsedField[UnknownLocation] = <<None, None, None>>
  /\ parsed = 1 /\ geocoded = 1 /\ Len(locations) = 1 /\ locations[1][2].count = 1
  /\ states = << <<<<"C","A">>, 1>> >>

(***************************************************************************)
(* Counter.most_common applied on its own                                  *)
(***************************************************************************)
MaxCats == 3
MaxCount == 2

RankKeys == {STATE_ABBREV[i][1] : i \in 1..(MaxCats + 1)}

\* the Counters the loops of main() can build: distinct keys in the order
\* they were first seen, each seen at least once
Counters ==
  UNION {{c \in [1..m -> RankKeys \X (1..MaxCount)] :
            \A i, j \in 1..m : c[i][1] = c[j][1] => i = j} : m \in 0..MaxCats}

\* most_common(1) (jet :261), most_common(15) (jet :153, residence :568)
\* and a cut inside the Counters above
RankSizes == {1, 2, TopN}

InitRank == Idle /\ op = "call" /\ arg \in Counters \X RankSizes /\ ret = None

CallMostCommon ==
  /\ op = "call"
  /\ ret' = most_common(arg[1], arg[2])
  /\ op' = "most_common"
  /\ UNCHANGED <<mainVars, arg>>

SpecRank == InitRank /\ [][CallMostCommon]_vars

\* the place of key k in the Counter c: the order in which keys were first seen
FirstSeen(c, k) == CHOOSE i \in 1..Len(c) : c[i][1] = k

\* entry a of the Counter c is ranked before entry b
Before(c, a, b) ==
  a[2] > b[2] \/ (a[2] = b[2] /\ FirstSeen(c, a[1]) < FirstSeen(c, b[1]))

\* C15: the ranking most_common(n) of a Counter has min(n, number of
\* categories) entries, all of them entries of the Counter, in
\* non-increasing order of count with the category first seen first among
\* equal counts, and every category left out has a lower count than every
\* ranked one, or an equal count and was first seen later.
C15_TopNRanking ==
  op = "most_common" =>
    LET c == arg[1]
        n == arg[2]
        In(e) == \E i \in 1..Len(ret) : ret[i] = e
    IN  /\ Len(ret) = Min({n, Len(c)})
        /\ \A i \in 1..Len(ret) : \E k \in 1..Len(c) : ret[i] = c[k]
        /\ \A i, j \in 1..Len(ret) : i < j => Before(c, ret[i], ret[j])
        /\ \A k \in 1..Len(c) : ~In(c[k]) =>
             \A i \in 1..Len(ret) : Before(c, ret[i], c[k])

C15_Witness ==
  /\ op = "most_common" /\ arg[2] = 2 /\ Len(arg[1]) = 3
  /\ arg[1][1][2] = 1 /\ arg[1][2][2] = 2 /\ arg[1][3][2] = 1
  /\ ret = <<arg[1][2], arg[1][1]>>

Zip90012 == <<"9","0","0","1","2">>

\* what parse_address, get_coords and the loop do with the one record MainSt;
\* name is the display name of the entry get_coords returns
MainStScenario(name) ==
  LET r == ParsedField[MainSt]
      e == get_coords(r[3], r[2])
  IN  /\ r = <<<<"L","o","s"," ","A","n","g","e","l","e","s">>, <<"C","A">>, Zip90012>>
      /\ e = DictGet(ZIP_COORDS, Zip90012)
      /\ e # DictGet(ZIP_COORDS, Prefix3(Zip90012))
      /\ e[3] = name
      /\ Len(locations) = 1
      /\ locations[1][1] = <<e[1], e[2]>>
      /\ locations[1][2] = [count |-> 1, name |-> name, lat |-> e[1], lng |-> e[2]]
      /\ states = << <<<<"C","A">>, 1>> >>
      /\ parsed = 1 /\ geocoded = 1

\* C16 as stated: processing the single address "123 Main St, Los Angeles CA
\* 90012" parses city "Los Angeles", state "CA" and postal code "90012", the
\* resolver returns the exact five-digit entry, which is the Downtown LA
\* entry, not the entry of prefix "900", and the run has one bucket of
\* count 1 at that entry's coordinates and category "CA" at 1.
C16_Original ==
  prog = "residence" /\ rows = <<MainSt>> /\ total = 1 => MainStScenario("Downtown LA")

\* C16: processing the single address "123 Main St, Los Angeles CA 90012"
\* parses city "Los Angeles", state "CA" and postal code "90012", the
\* resolver returns the exact five-digit entry of 90012, named
\* Chinatown/Civic Center, not the entry of prefix "900" (which is the one
\* named Downtown LA), and the run has one bucket of count 1 at that
\* entry's coordinates and category "CA" at 1.
C16_MainStScenario ==
  prog = "residence" /\ rows = <<MainSt>> /\ total = 1 =>
    /\ MainStScenario("Chinatown/Civic Center")
    /\ DictGet(ZIP_COORDS, Prefix3(Zip90012))[3] = "Downtown LA"

C16_Witness ==
  /\ prog = "residence" /\ rows = <<MainSt>> /\ total = 1 /\ pc = "done"
  /\ out.total = 1 /\ out.resolved = 1 /\ Len(out.loc_data) = 1
  /\ out.loc_data[1].name = "Chinatown/Civic Center"

\* no two entries of the table t carry the same (latitude, longitude) pair
UniqueCoords(t) ==
  \A i, j \in 1..Len(t) :
    t[i][2][1] = t[j][2][1] /\ t[i][2][2] = t[j][2][2] => i = j

PrefectureCoordsUnique == UniqueCoords(PREFECTURE_COORDS)

ZipCoordsUnique == UniqueCoords(ZIP_COORDS)

\* the key of the Gazetteer entry a record with this field is aggregated to
JetRegionKey ==
  [f \in JetFields |-> IF JetRegion[f] # None THEN NormalizedField[f] ELSE None]

ResidenceRegionKey ==
  [a \in AddressFields |->
     IF ResidenceRegion[a] = None THEN None
     ELSE IF DictHas(ZIP_COORDS, ParsedField[a][3]) THEN ParsedField[a][3]
     ELSE Prefix3(ParsedField[a][3])]

RegionKey(n) ==
  IF prog = "jet" THEN JetRegionKey[rows[n]] ELSE ResidenceRegionKey[rows[n]]

\* C18: in the table a run resolves with (the prefecture table in the jet
\* pipeline, the postal table in the residence pipeline) no two distinct keys
\* carry the same (latitude, longitude) pair, so two processed records
\* aggregated to entries of different keys are never counted in the same
\* bucket.
C18_UniqueCoordinates ==
  /\ prog = "jet" => PrefectureCoordsUnique
  /\ prog = "residence" => ZipCoordsUnique
  /\ \A m, n \in 1..total :
       /\ Region(m) # None /\ Region(n) # None
       /\ <<Region(m)[1], Region(m)[2]>> = <<Region(n)[1], Region(n)[2]>>
       => RegionKey(m) = RegionKey(n)

\* two records of the keys 946 and 947 of ZIP_COORDS counted in one bucket
C18_Merged ==
  /\ prog = "residence" /\ total = 2 /\ Len(locations) = 1
  /\ locations[1][2].count = 2
  /\ RegionKey(1) = <<"9","4","6">> /\ RegionKey(2) = <<"9","4","7">>

\* C19: in every state of a run the display name of each bucket is the
\* display name of the Gazetteer entry of every processed record counted in
\* that bucket (so the name does not depend on which of them came first).
C19_BucketNameOfEveryRegion ==
  \A i \in 1..Len(locations) :
    \A n \in AggregatedTo(locations[i][1]) :
      locations[i][2].name = Region(n)[3]

\* a bucket named after the first of two entries with different names
C19_Misnamed ==
  /\ prog = "residence" /\ total = 2 /\ Len(locations) = 1
  /\ locations[1][2].count = 2
  /\ locations[1][2].name = "Richmond/El Cerrito"
  /\ Region(2)[3] = "Contra Costa"

\* the table the run resolves with has two keys sharing one coordinate pair
GazetteerCollides ==
  \/ prog = "jet" /\ ~PrefectureCoordsUnique
  \/ prog = "residence" /\ ~ZipCoordsUnique

\* C20: when the Gazetteer of a run has two keys sharing one coordinate
\* pair, the run is rejected at startup: no record is ever processed, and
\* the run never reaches the rendering of a summary.
C20_RejectedAtStartup ==
  GazetteerCollides => total = 0 /\ pc \notin {"html", "done"}

\* a summary with a merged bucket, emitted by a run whose table collides
C20_MergedSummary ==
  /\ GazetteerCollides /\ pc = "done" /\ total = 2
  /\ Len(out.loc_data) = 1 /\ out.loc_data[1].count = 2
  /\ RegionKey(1) # RegionKey(2)

\* the summary has been handed to the renderer and written
SummaryProduced == pc = "done"

\* the summary is produced only after every record has been processed, and
\* in a state with the summary produced the counts of the run are the
\* emitted ones
SummaryAfterAllRecords ==
  /\ pc \in {"html", "done"} => total = Len(rows)
  /\ SummaryProduced =>
       /\ out.total = total
       /\ out.resolved = (IF prog = "jet" THEN mapped ELSE geocoded)
       /\ out.loc_data = loc_data(locations)

\* no step of the run starts in a state with the summary produced
NoStepAfterSummary == [][~SummaryProduced]_vars

\* C21: no run stops short of its summary, the summary is produced only
\* after every record has been processed, and once it has been produced no
\* further record has been aggregated: the counts of the run are the emitted
\* ones.
C21_SummaryExactlyOnce == pc # "error" /\ SummaryAfterAllRecords

\* a run that has stopped with an error after the loop, with no summary
C21_StoppedWithoutSummary ==
  /\ pc = "error" /\ total = Len(rows) /\ Len(rows) > 0 /\ out = None

(***************************************************************************)
(* More properties of normalize_prefecture (SpecNormalize)                 *)
(***************************************************************************)
\* nothing is left of raw once whitespace and double-quote characters are
\* stripped from both ends
NothingLeft(raw) ==
  raw # None /\ strip(raw, Whitespace \cup {"\""}) = <<>>

TwoQuotes == <<"\"", "\"">>

\* C22: normalize returns Unresolved for a raw text of which nothing is left
\* once the surrounding whitespace and double-quote characters are stripped.
C22_StrippedEmptyUnresolved ==
  Normalized /\ NothingLeft(arg) => ret = None

\* the field of two double-quote characters resolved to the first key
C22_TwoQuotesResolved ==
  Normalized /\ arg = TwoQuotes /\ ret = PREFECTURE_COORDS[1][1]

(***************************************************************************)
(* The counters of the aggregation (Spec)                                  *)
(***************************************************************************)
RECURSIVE SumValues(_)
\* sum(c.values()) of a Counter
SumValues(c) ==
  IF c = <<>> THEN 0 ELSE c[1][2] + SumValues(SubSeq(c, 2, Len(c)))

RECURSIVE SumBuckets(_)
\* sum(loc['count'] for loc in locations.values())
SumBuckets(locs) ==
  IF locs = <<>> THEN 0 ELSE locs[1][2].count + SumBuckets(SubSeq(locs, 2, Len(locs)))

\* C23: in every state of a run the bucket counts add up to the number of
\* records counted as resolved (mapped in the jet pipeline, geocoded in the
\* residence pipeline); in the residence pipeline geocoded <= parsed <= total
\* and parsed is the sum of the state counts; in the jet pipeline
\* mapped <= total and mapped is the sum of the prefecture counts.
C23_CountersAgree ==
  /\ prog = "jet" =>
       /\ SumBuckets(locations) = mapped
       /\ mapped <= total
       /\ SumValues(prefectures) = mapped
  /\ prog = "residence" =>
       /\ SumBuckets(locations) = geocoded
       /\ geocoded <= parsed /\ parsed <= total
       /\ SumValues(states) = parsed

C23_Witness ==
  /\ prog = "residence" /\ total = 3 /\ parsed = 2 /\ geocoded = 1
  /\ SumBuckets(locations) = 1 /\ SumValues(states) = 2 /\ Len(states) = 2

\* the canonical keys of the prefecture table
PrefectureKeys == {PREFECTURE_COORDS[n][1] : n \in 1..Len(PREFECTURE_COORDS)}

Yamaguchi == <<"Y","a","m","a","g","u","c","h","i">>

\* C24: normalize of every key of PREFECTURE_COORDS is that key: it is not an
\* alias of another key, and no key earlier in the table contains it or is
\* contained in it.
C24_KeyNormalizesToItself ==
  Normalized /\ arg \in PrefectureKeys => ret = arg

C24_Witness ==
  /\ Normalized /\ arg = Yamaguchi /\ ret = Yamaguchi
  /\ \E m, n \in 1..Len(PREFECTURE_COORDS) :
       /\ m < n /\ PREFECTURE_COORDS[n][1] = Yamaguchi
       /\ SubSeq(PREFECTURE_COORDS[m][1], 1, 4) = SubSeq(Yamaguchi, 1, 4)

=============================================================================
